---- MODULE Spec2Model ----
(***************************************************************************)
(* InvoiceFlow-AI: the reasoning pipeline behind one invoice submission.   *)
(*                                                                         *)
(*   NLPAgent.extract  ->  FraudAgent.detect  ->  PolicyAgent.check_...    *)
(*                     ->  DecisionAgent.decide                            *)
(*                                                                         *)
(* Encoding of Python values:                                              *)
(*   str    a sequence of one-character strings  ("ab" is <<"a","b">>)     *)
(*   None   the value None below (for a str field) / NoneNum (for a number)*)
(*   money  integer cents (2345.67 is 234567)                              *)
(*   scores integer hundredths (0.75 is 75); every sum of check weights    *)
(*          is exact in hundredths and compares against 0.2/0.3/0.4/0.7    *)
(*          as the float sum does                                          *)
(*   time   seconds since 2025-01-01 00:00:00 (datetime.now())             *)
(***************************************************************************)
EXTENDS Integers, Sequences, FiniteSets, TLC

VARIABLES
    processed_invoices, \* FraudAgent.processed_invoices, the ledger
    now,                \* the wall clock read by datetime.now()
    submitted,          \* history: the entry of every detect call so far
    pc,                 \* the stage the caller runs next
    data,               \* the ExtractedInvoice being processed
    fraud_result,       \* result of FraudAgent.detect
    policy_result,      \* result of PolicyAgent.check_compliance
    decision_result,    \* result of DecisionAgent.decide
    runs,               \* the run_pipeline invocations of the API's Orchestrator
    raw_text            \* the text handed to NLPAgent.extract, a list of lines

vars == <<processed_invoices, now, submitted, pc, data, fraud_result,
          policy_result, decision_result, runs, raw_text>>

---------------------------------------------------------------------------
(* Python values *)

None == <<"NoneType">>
NoneNum == 0 - 1

\* truth value of an optional str: None and "" are falsy
Truthy(s) == s # None /\ s # <<>>

\* truth value of an optional number: None and 0 are falsy
TruthyNum(n) == n # NoneNum /\ n # 0

Min(S) == CHOOSE x \in S : \A y \in S : x <= y

Digits == <<"0", "1", "2", "3", "4", "5", "6", "7", "8", "9">>

IsDigitChar(c) == \E i \in 1..10 : Digits[i] = c

DigitVal(c) == (CHOOSE i \in 1..10 : Digits[i] = c) - 1

\* str.isdigit(): non-empty and every character a digit
isdigit(s) == Len(s) > 0 /\ \A i \in 1..Len(s) : IsDigitChar(s[i])

UpperCase == <<"A", "B", "C", "D", "E", "F", "G", "H", "I", "J", "K", "L", "M",
               "N", "O", "P", "Q", "R", "S", "T", "U", "V", "W", "X", "Y", "Z">>

LowerCase == <<"a", "b", "c", "d", "e", "f", "g", "h", "i", "j", "k", "l", "m",
               "n", "o", "p", "q", "r", "s", "t", "u", "v", "w", "x", "y", "z">>

IsAlnumChar(c) ==
    \/ IsDigitChar(c)
    \/ \E i \in 1..26 : UpperCase[i] = c \/ LowerCase[i] = c

lower(s) ==
    [i \in 1..Len(s) |->
        IF \E k \in 1..26 : UpperCase[k] = s[i]
        THEN LowerCase[CHOOSE k \in 1..26 : UpperCase[k] = s[i]]
        ELSE s[i]]

\* str.strip(): leading and trailing blanks removed
strip(s) ==
    LET keep == {i \in 1..Len(s) : s[i] # " "}
    IN IF keep = {} THEN <<>>
       ELSE SubSeq(s, Min(keep), CHOOSE j \in keep : \A k \in keep : k <= j)

\* sub in s
Contains(sub, s) ==
    \E i \in 0..(Len(s) - Len(sub)) : SubSeq(s, i + 1, i + Len(sub)) = sub

\* int(s) of a digit string
RECURSIVE ToInt(_)
ToInt(s) ==
    IF Len(s) = 0 THEN 0
    ELSE 10 * ToInt(SubSeq(s, 1, Len(s) - 1)) + DigitVal(s[Len(s)])

---------------------------------------------------------------------------
(* FraudAgent *)

\* self.thresholds, in dollars
high_amount == 10000
very_high_amount == 50000
suspicious_frequency_same_day == 3
suspicious_frequency_same_hour == 2
round_amount_min == 1000

\* capacity of processed_invoices
LedgerCapacity == 100

Cents(dollars) == dollars * 100

\* mutant: an absent invoice number is looked up like any other
check_duplicate_no_guard(ledger, invoice_number, vendor) ==
    LET same == {i \in 1..Len(ledger) :
                    ledger[i].invoice_number = invoice_number}
    IN IF same = {}
       THEN [is_duplicate |-> FALSE, message |-> "No duplicate found"]
       ELSE IF ledger[Min(same)].vendor = vendor
            THEN [is_duplicate |-> TRUE, message |-> "already processed"]
            ELSE [is_duplicate |-> FALSE,
                  message |-> "exists for different vendor"]

\* _check_duplicate: the loop returns at the FIRST ledger entry that has the
\* invoice number, whichever vendor it belongs to
check_duplicate(ledger, invoice_number, vendor) ==
    IF ~Truthy(invoice_number)
    THEN [is_duplicate |-> FALSE, message |-> "No invoice number to check"]
    ELSE LET same == {i \in 1..Len(ledger) :
                         ledger[i].invoice_number = invoice_number}
         IN IF same = {}
            THEN [is_duplicate |-> FALSE, message |-> "No duplicate found"]
            ELSE IF ledger[Min(same)].vendor = vendor
                 THEN [is_duplicate |-> TRUE, message |-> "already processed"]
                 ELSE [is_duplicate |-> FALSE,
                       message |-> "exists for different vendor"]

is_suspicious_round_amount(amount) ==
    IF amount < Cents(round_amount_min) THEN FALSE
    ELSE amount % Cents(100) = 0 /\ amount >= Cents(1000)

\* mutant: the windows include their far end (time_diff <= 3600, <= 86400)
check_vendor_frequency_inclusive(ledger, vendor, t) ==
    IF ~Truthy(vendor)
    THEN [suspicious |-> FALSE, message |-> "No vendor to check"]
    ELSE LET mine == {i \in 1..Len(ledger) : ledger[i].vendor = vendor}
             today_count ==
                 Cardinality({i \in mine : t - ledger[i].timestamp <= 86400})
             recent_count ==
                 Cardinality({i \in mine : t - ledger[i].timestamp <= 3600})
         IN IF recent_count >= suspicious_frequency_same_hour
            THEN [suspicious |-> TRUE, message |-> "Multiple invoices within 1 hour"]
            ELSE IF today_count >= suspicious_frequency_same_day
                 THEN [suspicious |-> TRUE, message |-> "Multiple invoices today"]
                 ELSE [suspicious |-> FALSE, message |-> "Normal frequency"]

check_vendor_frequency(ledger, vendor, t) ==
    IF ~Truthy(vendor)
    THEN [suspicious |-> FALSE, message |-> "No vendor to check"]
    ELSE LET mine == {i \in 1..Len(ledger) : ledger[i].vendor = vendor}
             today_count ==
                 Cardinality({i \in mine : t - ledger[i].timestamp < 86400})
             recent_count ==
                 Cardinality({i \in mine : t - ledger[i].timestamp < 3600})
         IN IF recent_count >= suspicious_frequency_same_hour
            THEN [suspicious |-> TRUE, message |-> "Multiple invoices within 1 hour"]
            ELSE IF today_count >= suspicious_frequency_same_day
                 THEN [suspicious |-> TRUE, message |-> "Multiple invoices today"]
                 ELSE [suspicious |-> FALSE, message |-> "Normal frequency"]

\* "not value or (isinstance(value, (int, float)) and value <= 0)"
MissingStr(v) == ~Truthy(v)
MissingNum(n) == ~TruthyNum(n) \/ n <= 0

\* _check_missing_fields: the names of the missing critical fields, in order
check_missing_fields(d) ==
    (IF MissingStr(d.invoice_number) THEN <<"invoice_number">> ELSE <<>>)
    \o (IF MissingStr(d.vendor) THEN <<"vendor">> ELSE <<>>)
    \o (IF MissingStr(d.date) THEN <<"date">> ELSE <<>>)
    \o (IF MissingNum(d.total_amount) THEN <<"total_amount">> ELSE <<>>)

AllChar(s, c) == Len(s) > 0 /\ \A i \in 1..Len(s) : s[i] = c

check_invoice_pattern(invoice_number) ==
    IF ~Truthy(invoice_number)
    THEN [suspicious |-> FALSE, message |-> "No invoice number"]
    ELSE IF isdigit(invoice_number) /\ Len(invoice_number) <= 3
         THEN [suspicious |-> TRUE, message |-> "Suspiciously simple invoice number"]
         ELSE IF AllChar(invoice_number, "0") \/ AllChar(invoice_number, "1")
              THEN [suspicious |-> TRUE, message |-> "Invalid invoice number pattern"]
              ELSE [suspicious |-> FALSE, message |-> "Normal pattern"]

\* _check_amount_consistency: (tax / total) * 100 < 3 or > 25, in exact
\* arithmetic on cents
check_amount_consistency(d) ==
    IF ~TruthyNum(d.tax_amount) \/ d.tax_amount <= 0 THEN TRUE
    ELSE IF d.total_amount > 0
            /\ (d.tax_amount * 100 < 3 * d.total_amount
                \/ d.tax_amount * 100 > 25 * d.total_amount)
         THEN FALSE
         ELSE TRUE

\* mutant: the lower bounds of the levels are exclusive
get_risk_level_exclusive(score) ==
    IF score > 70 THEN "HIGH"
    ELSE IF score > 40 THEN "MEDIUM"
    ELSE IF score > 20 THEN "LOW"
    ELSE "MINIMAL"

get_risk_level(score) ==
    IF score >= 70 THEN "HIGH"
    ELSE IF score >= 40 THEN "MEDIUM"
    ELSE IF score >= 20 THEN "LOW"
    ELSE "MINIMAL"

LedgerEntry(d, t) ==
    [invoice_number |-> d.invoice_number, vendor |-> d.vendor,
     amount |-> d.total_amount, date |-> d.date, timestamp |-> t]

\* mutant: the ledger is never trimmed
store_invoice_no_trim(ledger, d, t) == Append(ledger, LedgerEntry(d, t))

\* mutant: the slice keeps the first 100 entries ([:100]) instead of the last
store_invoice_keep_first(ledger, d, t) ==
    LET appended == Append(ledger, LedgerEntry(d, t))
    IN IF Len(appended) > LedgerCapacity
       THEN SubSeq(appended, 1, LedgerCapacity)
       ELSE appended

\* _store_invoice: append, then keep the last 100
store_invoice(ledger, d, t) ==
    LET appended == Append(ledger, LedgerEntry(d, t))
    IN IF Len(appended) > LedgerCapacity
       THEN SubSeq(appended, Len(appended) - LedgerCapacity + 1, Len(appended))
       ELSE appended

\* mutant: _store_invoice is called before the checks
checked_ledger_after_store(ledger, d, t) == store_invoice(ledger, d, t)

\* the ledger the seven checks of detect read: processed_invoices as it is
\* when detect is entered (_store_invoice runs after the last check)
checked_ledger(ledger, d, t) == ledger

\* mutant: the sum of the weights is reported as it is
cap_risk_score_none(risk_score) == risk_score

\* "risk_score = min(risk_score, 1.0)"
cap_risk_score(risk_score) ==
    IF risk_score < 100 THEN risk_score ELSE 100

\* mutant: an assessment is suspicious from the LOW level on
is_suspicious_score_from_low(risk_score) == risk_score >= 20

\* "is_suspicious = risk_score >= 0.3"
is_suspicious_score(risk_score) == risk_score >= 30

\* FraudAgent.detect, the assessment it returns
detect(ledger, d, t) ==
    LET seen == checked_ledger(ledger, d, t)
        duplicate_check == check_duplicate(seen, d.invoice_number, d.vendor)
        frequency_check == check_vendor_frequency(seen, d.vendor, t)
        missing_fields == check_missing_fields(d)
        pattern_check == check_invoice_pattern(d.invoice_number)
        amount == d.total_amount
        c1 == IF duplicate_check.is_duplicate
              THEN [f |-> <<"Duplicate invoice">>, w |-> 50]
              ELSE [f |-> <<>>, w |-> 0]
        c2 == IF amount >= Cents(very_high_amount)
              THEN [f |-> <<"Very high amount">>, w |-> 30]
              ELSE IF amount >= Cents(high_amount)
                   THEN [f |-> <<"High amount">>, w |-> 20]
                   ELSE [f |-> <<>>, w |-> 0]
        c3 == IF is_suspicious_round_amount(amount)
              THEN [f |-> <<"Suspicious round amount">>, w |-> 15]
              ELSE [f |-> <<>>, w |-> 0]
        c4 == IF frequency_check.suspicious
              THEN [f |-> <<frequency_check.message>>, w |-> 25]
              ELSE [f |-> <<>>, w |-> 0]
        c5 == IF missing_fields # <<>>
              THEN [f |-> <<"Missing critical fields">>, w |-> 20]
              ELSE [f |-> <<>>, w |-> 0]
        c6 == IF pattern_check.suspicious
              THEN [f |-> <<pattern_check.message>>, w |-> 10]
              ELSE [f |-> <<>>, w |-> 0]
        c7 == IF ~check_amount_consistency(d)
              THEN [f |-> <<"Tax calculation appears inconsistent">>, w |-> 10]
              ELSE [f |-> <<>>, w |-> 0]
        flags == c1.f \o c2.f \o c3.f \o c4.f \o c5.f \o c6.f \o c7.f
        total == c1.w + c2.w + c3.w + c4.w + c5.w + c6.w + c7.w
        risk_score == cap_risk_score(total)
    IN [is_suspicious |-> is_suspicious_score(risk_score),
        risk_score |-> risk_score,
        risk_level |-> get_risk_level(risk_score),
        flags |-> IF flags # <<>> THEN flags
                  ELSE <<"No fraud indicators detected">>,
        checks_performed |-> 7,
        details |-> [duplicate_check |-> duplicate_check,
                     frequency_check |-> frequency_check,
                     pattern_check |-> pattern_check]]

---------------------------------------------------------------------------
(* Dates: datetime.strptime and datetime arithmetic *)

\* the positions of character c in s
Positions(s, c) == {i \in 1..Len(s) : s[i] = c}

IsLeap(y) == (y % 4 = 0 /\ y % 100 # 0) \/ y % 400 = 0

DaysInMonth(y, m) ==
    IF m = 2 THEN (IF IsLeap(y) THEN 29 ELSE 28)
    ELSE IF m \in {4, 6, 9, 11} THEN 30 ELSE 31

\* days since 1970-01-01 of a calendar date
DaysFromCivil(y, m, d) ==
    LET yy == IF m <= 2 THEN y - 1 ELSE y
        era == yy \div 400
        yoe == yy - era * 400
        mp == IF m > 2 THEN m - 3 ELSE m + 9
        doy == (153 * mp + 2) \div 5 + d - 1
        doe == yoe * 365 + yoe \div 4 - yoe \div 100 + doy
    IN era * 146097 + doe - 719468

\* the day the clock starts on: now = 0 is 2025-01-01 00:00:00
EpochDay == DaysFromCivil(2025, 1, 1)

\* a date field of one or two digits with a value in lo..hi (%m, %d)
FieldOk(part, lo, hi) ==
    isdigit(part) /\ Len(part) <= 2 /\ ToInt(part) >= lo /\ ToInt(part) <= hi

\* strptime(date, fmt) for the formats of three numeric fields around one
\* separator; order is the position of year, month, day among the fields.
\* The result is [ok, day]: day counts days since the epoch of the clock.
strptime(date, sep, yi, mi, di) ==
    LET cut == Positions(date, sep)
        bad == [ok |-> FALSE, day |-> 0]
    IN IF Cardinality(cut) # 2 THEN bad
       ELSE LET a == Min(cut)
                b == CHOOSE j \in cut : j # a
                parts == <<SubSeq(date, 1, a - 1), SubSeq(date, a + 1, b - 1),
                           SubSeq(date, b + 1, Len(date))>>
                ys == parts[yi]
            IN IF ~(isdigit(ys) /\ Len(ys) = 4) THEN bad
               ELSE IF ~FieldOk(parts[mi], 1, 12) THEN bad
               ELSE IF ~FieldOk(parts[di], 1,
                                DaysInMonth(ToInt(ys), ToInt(parts[mi])))
                    THEN bad
               ELSE [ok |-> TRUE,
                     day |-> DaysFromCivil(ToInt(ys), ToInt(parts[mi]),
                                           ToInt(parts[di])) - EpochDay]

\* the loop over '%Y-%m-%d', '%m/%d/%Y', '%d/%m/%Y', '%Y/%m/%d': first success
parse_invoice_date(date) ==
    LET f1 == strptime(date, "-", 1, 2, 3)
        f2 == strptime(date, "/", 3, 1, 2)
        f3 == strptime(date, "/", 3, 2, 1)
        f4 == strptime(date, "/", 1, 2, 3)
    IN IF f1.ok THEN f1 ELSE IF f2.ok THEN f2 ELSE IF f3.ok THEN f3 ELSE f4

---------------------------------------------------------------------------
(* PolicyAgent *)

approved_vendors ==
    <<<<"A", "c", "m", "e", " ", "C", "o", "r", "p">>,
     <<"A", "C", "M", "E", " ", "C", "o", "r", "p", "o", "r", "a", "t", "i", "o", "n">>,
     <<"A", "C", "M", "E", "C", "o", "r", "p", "o", "r", "a", "t", "i", "o", "n">>,
     <<"T", "e", "c", "h", "S", "o", "l", "u", "t", "i", "o", "n", "s", " ", "I", "n", "c">>,
     <<"T", "e", "c", "h", " ", "S", "o", "l", "u", "t", "i", "o", "n", "s", " ", "I", "n", "c">>,
     <<"O", "f", "f", "i", "c", "e", "S", "u", "p", "p", "l", "i", "e", "s", " ", "C", "o">>,
     <<"O", "f", "f", "i", "c", "e", " ", "S", "u", "p", "p", "l", "i", "e", "s", " ", "C", "o">>,
     <<"G", "l", "o", "b", "a", "l", "S", "e", "r", "v", "i", "c", "e", "s", " ", "L", "t", "d">>,
     <<"G", "l", "o", "b", "a", "l", " ", "S", "e", "r", "v", "i", "c", "e", "s", " ", "L", "t", "d">>,
     <<"D", "a", "t", "a", "S", "y", "s", "t", "e", "m", "s", " ", "I", "n", "c">>,
     <<"D", "a", "t", "a", " ", "S", "y", "s", "t", "e", "m", "s", " ", "I", "n", "c">>,
     <<"C", "l", "o", "u", "d", "T", "e", "c", "h", " ", "S", "o", "l", "u", "t", "i", "o", "n", "s">>,
     <<"C", "l", "o", "u", "d", " ", "T", "e", "c", "h", " ", "S", "o", "l", "u", "t", "i", "o", "n", "s">>,
     <<"M", "i", "c", "r", "o", "s", "o", "f", "t">>,
     <<"G", "o", "o", "g", "l", "e">>,
     <<"A", "m", "a", "z", "o", "n">>,
     <<"A", "d", "o", "b", "e">>>>

\* self.spending_limits, in dollars
limit_auto_approve == 5000
limit_requires_manager == 10000
limit_requires_director == 25000
limit_requires_cfo == 50000

\* self.rules
max_invoice_age_days == 90
min_amount_cents == 1
max_amount == 100000
require_po_above == 1000

accepted_currencies == {<<"U", "S", "D">>, <<"E", "U", "R">>, <<"G", "B", "P">>, <<"C", "A", "D">>, <<"A", "U", "D">>, <<"J", "P", "Y">>, <<"I", "N", "R">>}

\* mutant: invoice_number is not among the required fields
check_required_fields_no_number(d) ==
    LET basic ==
            (IF MissingStr(d.vendor) THEN <<"vendor">> ELSE <<>>)
            \o (IF MissingStr(d.date) THEN <<"date">> ELSE <<>>)
            \o (IF MissingNum(d.total_amount) THEN <<"total_amount">> ELSE <<>>)
        cur == IF MissingStr(d.currency) THEN <<"currency">> ELSE <<>>
        tax == IF MissingNum(d.tax_amount) THEN <<"tax_amount">> ELSE <<>>
    IN IF d.total_amount > Cents(10000) THEN basic \o cur \o tax
       ELSE IF d.total_amount > Cents(1000) THEN basic \o cur
       ELSE basic

\* _check_required_fields: the missing names among the set the amount selects
check_required_fields(d) ==
    LET basic ==
            (IF MissingStr(d.invoice_number) THEN <<"invoice_number">> ELSE <<>>)
            \o (IF MissingStr(d.vendor) THEN <<"vendor">> ELSE <<>>)
            \o (IF MissingStr(d.date) THEN <<"date">> ELSE <<>>)
            \o (IF MissingNum(d.total_amount) THEN <<"total_amount">> ELSE <<>>)
        cur == IF MissingStr(d.currency) THEN <<"currency">> ELSE <<>>
        tax == IF MissingNum(d.tax_amount) THEN <<"tax_amount">> ELSE <<>>
    IN IF d.total_amount > Cents(10000) THEN basic \o cur \o tax
       ELSE IF d.total_amount > Cents(1000) THEN basic \o cur
       ELSE basic

\* mutant: only the exact names of the list are approved
check_vendor_approval_exact(vendor) ==
    IF Truthy(vendor) /\ \E k \in 1..Len(approved_vendors) :
                             strip(vendor) = approved_vendors[k]
    THEN [approved |-> TRUE, message |-> "exact", warning |-> <<>>]
    ELSE [approved |-> FALSE,
          message |-> "Vendor is not in approved vendor list",
          warning |-> <<>>]

\* _check_vendor_approval; extraction_data.get("vendor", "") may be None
check_vendor_approval(vendor) ==
    IF ~Truthy(vendor)
    THEN [approved |-> FALSE, message |-> "No vendor name provided",
          warning |-> <<>>]
    ELSE LET vendor_lower == strip(lower(vendor))
         IN IF \E k \in 1..Len(approved_vendors) :
                   strip(vendor) = approved_vendors[k]
            THEN [approved |-> TRUE, message |-> "exact", warning |-> <<>>]
            ELSE IF \E k \in 1..Len(approved_vendors) :
                        \/ Contains(lower(approved_vendors[k]), vendor_lower)
                        \/ Contains(vendor_lower, lower(approved_vendors[k]))
                 THEN [approved |-> TRUE, message |-> "fuzzy",
                       warning |-> <<"Vendor name is similar - verify exact match">>]
                 ELSE [approved |-> FALSE,
                       message |-> "Vendor is not in approved vendor list",
                       warning |-> <<>>]

\* mutant: the upper bounds of the tiers are exclusive
check_spending_limit_exclusive(amount) ==
    IF amount < Cents(limit_auto_approve)
    THEN [level |-> "auto_approve", approver |-> "System"]
    ELSE IF amount < Cents(limit_requires_manager)
    THEN [level |-> "requires_manager", approver |-> "Manager"]
    ELSE IF amount < Cents(limit_requires_director)
    THEN [level |-> "requires_director", approver |-> "Director"]
    ELSE IF amount < Cents(limit_requires_cfo)
    THEN [level |-> "requires_cfo", approver |-> "CFO"]
    ELSE [level |-> "requires_board", approver |-> "Board of Directors"]

\* mutant: the CFO tier has no upper limit
check_spending_limit_cfo_top(amount) ==
    IF amount <= Cents(limit_auto_approve)
    THEN [level |-> "auto_approve", approver |-> "System"]
    ELSE IF amount <= Cents(limit_requires_manager)
    THEN [level |-> "requires_manager", approver |-> "Manager"]
    ELSE IF amount <= Cents(limit_requires_director)
    THEN [level |-> "requires_director", approver |-> "Director"]
    ELSE [level |-> "requires_cfo", approver |-> "CFO"]

check_spending_limit(amount) ==
    IF amount <= Cents(limit_auto_approve)
    THEN [level |-> "auto_approve", approver |-> "System"]
    ELSE IF amount <= Cents(limit_requires_manager)
    THEN [level |-> "requires_manager", approver |-> "Manager"]
    ELSE IF amount <= Cents(limit_requires_director)
    THEN [level |-> "requires_director", approver |-> "Director"]
    ELSE IF amount <= Cents(limit_requires_cfo)
    THEN [level |-> "requires_cfo", approver |-> "CFO"]
    ELSE [level |-> "requires_board", approver |-> "Board of Directors"]

validate_amount(amount) ==
    IF amount < min_amount_cents
    THEN [valid |-> FALSE, message |-> "Amount is below minimum"]
    ELSE IF amount > Cents(max_amount)
    THEN [valid |-> FALSE, message |-> "Amount exceeds maximum allowed"]
    ELSE [valid |-> TRUE, message |-> "Amount is within acceptable range"]

\* mutant: a PO number is required only above the limit
check_po_requirement_above(amount, po_number) ==
    IF amount > Cents(require_po_above) /\ ~Truthy(po_number)
    THEN [compliant |-> FALSE, message |-> "PO number required"]
    ELSE [compliant |-> TRUE, message |-> "PO requirements met"]

check_po_requirement(amount, po_number) ==
    IF amount >= Cents(require_po_above) /\ ~Truthy(po_number)
    THEN [compliant |-> FALSE, message |-> "PO number required"]
    ELSE [compliant |-> TRUE, message |-> "PO requirements met"]

\* ^[A-Z0-9#-]+$ with re.IGNORECASE
FormatChars(s) ==
    Len(s) > 0 /\ \A i \in 1..Len(s) : IsAlnumChar(s[i]) \/ s[i] \in {"#", "-"}

validate_invoice_format(invoice_number) ==
    IF ~Truthy(invoice_number)
    THEN [valid |-> FALSE, message |-> "Invoice number is missing"]
    ELSE IF Len(invoice_number) < 3
    THEN [valid |-> FALSE, message |-> "Invoice number is too short"]
    ELSE IF ~FormatChars(invoice_number)
    THEN [valid |-> TRUE, message |-> "Invoice number contains unusual characters"]
    ELSE [valid |-> TRUE, message |-> "Invoice number format is valid"]

\* mutant: an invoice of exactly max_invoice_age_days is too old, one of
\* exactly 30 days is getting old
validate_invoice_date_inclusive(date, t) ==
    IF ~Truthy(date)
    THEN [valid |-> FALSE, message |-> "Invoice date is missing", warning |-> <<>>]
    ELSE LET parsed == parse_invoice_date(date)
             age_days == (t - parsed.day * 86400) \div 86400
         IN IF ~parsed.ok
            THEN [valid |-> TRUE, message |-> "",
                  warning |-> <<"Invoice date format could not be validated">>]
            ELSE IF age_days >= max_invoice_age_days
            THEN [valid |-> FALSE, message |-> "Invoice date is too old",
                  warning |-> <<>>]
            ELSE IF age_days < 0 - 1
            THEN [valid |-> FALSE, message |-> "Invoice date is in the future",
                  warning |-> <<>>]
            ELSE IF age_days >= 30
            THEN [valid |-> TRUE, message |-> "",
                  warning |-> <<"Invoice is getting old">>]
            ELSE [valid |-> TRUE, message |-> "Invoice date is valid",
                  warning |-> <<>>]

\* _validate_invoice_date at clock t: (today - invoice_date).days
validate_invoice_date(date, t) ==
    IF ~Truthy(date)
    THEN [valid |-> FALSE, message |-> "Invoice date is missing", warning |-> <<>>]
    ELSE LET parsed == parse_invoice_date(date)
             age_days == (t - parsed.day * 86400) \div 86400
         IN IF ~parsed.ok
            THEN [valid |-> TRUE, message |-> "",
                  warning |-> <<"Invoice date format could not be validated">>]
            ELSE IF age_days > max_invoice_age_days
            THEN [valid |-> FALSE, message |-> "Invoice date is too old",
                  warning |-> <<>>]
            ELSE IF age_days < 0 - 1
            THEN [valid |-> FALSE, message |-> "Invoice date is in the future",
                  warning |-> <<>>]
            ELSE IF age_days > 30
            THEN [valid |-> TRUE, message |-> "",
                  warning |-> <<"Invoice is getting old">>]
            ELSE [valid |-> TRUE, message |-> "Invoice date is valid",
                  warning |-> <<>>]

\* mutant: warnings count against compliance
PolicyResult_no_warnings(violations, warnings, approval_check) ==
    [compliant |-> Len(violations) = 0 /\ Len(warnings) = 0,
     violations |-> violations,
     warnings |-> warnings,
     approval_level |-> approval_check.level,
     approver_required |-> approval_check.approver,
     checks_performed |-> 8]

\* the result dictionary built at the end of check_compliance
PolicyResult(violations, warnings, approval_check) ==
    [compliant |-> Len(violations) = 0,
     violations |-> violations,
     warnings |-> warnings,
     approval_level |-> approval_check.level,
     approver_required |-> approval_check.approver,
     checks_performed |-> 8]

\* PolicyAgent.check_compliance at clock t
check_compliance(d, t) ==
    LET missing_fields == check_required_fields(d)
        vendor_check == check_vendor_approval(d.vendor)
        approval_check == check_spending_limit(d.total_amount)
        amount_check == validate_amount(d.total_amount)
        po_check == check_po_requirement(d.total_amount, d.po_number)
        invoice_check == validate_invoice_format(d.invoice_number)
        date_check == validate_invoice_date(d.date, t)
        violations ==
            (IF missing_fields # <<>> THEN <<"Missing required fields">> ELSE <<>>)
            \o (IF ~vendor_check.approved THEN <<vendor_check.message>> ELSE <<>>)
            \o (IF ~amount_check.valid THEN <<amount_check.message>> ELSE <<>>)
            \o (IF ~po_check.compliant THEN <<po_check.message>> ELSE <<>>)
            \o (IF ~date_check.valid THEN <<date_check.message>> ELSE <<>>)
        warnings ==
            (IF vendor_check.approved THEN vendor_check.warning ELSE <<>>)
            \o (IF approval_check.level # "auto_approve"
                THEN <<"Amount requires " \o approval_check.approver
                         \o " approval">>
                ELSE <<>>)
            \o (IF ~invoice_check.valid THEN <<invoice_check.message>> ELSE <<>>)
            \o (IF date_check.valid THEN date_check.warning ELSE <<>>)
            \o (IF d.currency \notin accepted_currencies
                THEN <<"Unusual currency">> ELSE <<>>)
    IN PolicyResult(violations, warnings, approval_check)

---------------------------------------------------------------------------
(* DecisionAgent *)

Outcome(decision, confidence, reason) ==
    [decision |-> decision, confidence |-> confidence, reason |-> reason]

\* the if/elif ladder of DecisionAgent.decide
decide_ladder(extraction_data, fraud_results, policy_results) ==
    LET fraud_risk == fraud_results.risk_score
        fraud_level == fraud_results.risk_level
        is_suspicious == fraud_results.is_suspicious
        policy_violations == policy_results.violations
        policy_warnings == policy_results.warnings
        approval_level == policy_results.approval_level
        confidence == extraction_data.confidence
    IN IF fraud_level = "HIGH" \/ fraud_risk >= 70
       THEN Outcome("REJECT", 95, "High fraud risk detected")
       ELSE IF Len(policy_violations) > 0
       THEN Outcome("REJECT", 90, "Policy violations")
       ELSE IF fraud_level = "MEDIUM" \/ fraud_risk >= 40
       THEN Outcome("HOLD", 80, "Medium fraud risk")
       ELSE IF approval_level \in {"requires_cfo", "requires_board"}
       THEN Outcome("HOLD", 85, "Amount requires senior approval")
       ELSE IF Len(policy_warnings) > 2
       THEN Outcome("HOLD", 75, "Multiple policy warnings")
       ELSE IF confidence < 75
       THEN Outcome("HOLD", 70, "Low extraction confidence")
       ELSE IF approval_level = "requires_director"
       THEN Outcome("HOLD", 85, "Amount requires director approval")
       ELSE IF approval_level = "requires_manager"
       THEN Outcome("APPROVE", 80, "Approved pending manager confirmation")
       ELSE IF fraud_level = "LOW" \/ (is_suspicious /\ fraud_risk < 30)
       THEN Outcome("APPROVE", 75, "Approved with minor fraud flags")
       ELSE Outcome("APPROVE", 95, "All checks passed")

\* mutant: the director tier is approved like the manager tier
decide_director_approves(extraction_data, fraud_results, policy_results) ==
    LET r == decide_ladder(extraction_data, fraud_results, policy_results)
    IN IF r.reason = "Amount requires director approval"
       THEN Outcome("APPROVE", 80, "Approved pending director confirmation")
       ELSE r

\* mutant: the monitored approval (rule 9) is missing
decide_no_monitor(extraction_data, fraud_results, policy_results) ==
    LET r == decide_ladder(extraction_data, fraud_results, policy_results)
    IN IF r.reason = "Approved with minor fraud flags"
       THEN Outcome("APPROVE", 95, "All checks passed")
       ELSE r

\* mutant: the policy violations are looked at before the fraud level
decide_violations_first(extraction_data, fraud_results, policy_results) ==
    IF Len(policy_results.violations) > 0
    THEN Outcome("REJECT", 90, "Policy violations")
    ELSE decide_ladder(extraction_data, fraud_results, policy_results)

\* mutant: a medium fraud risk holds the invoice before the policy
\* violations are looked at
decide_medium_first(extraction_data, fraud_results, policy_results) ==
    IF ~(fraud_results.risk_level = "HIGH" \/ fraud_results.risk_score >= 70)
       /\ (fraud_results.risk_level = "MEDIUM" \/ fraud_results.risk_score >= 40)
    THEN Outcome("HOLD", 80, "Medium fraud risk")
    ELSE decide_ladder(extraction_data, fraud_results, policy_results)

\* DecisionAgent.decide: the decision and confidence of the result
decide(extraction_data, fraud_results, policy_results) ==
    decide_ladder(extraction_data, fraud_results, policy_results)

---------------------------------------------------------------------------
(* Inputs *)

Today == <<"2", "0", "2", "5", "-", "0", "1", "-", "0", "1">>
USD == <<"U", "S", "D">>

\* test_phase2.py SCENARIOS[0], "Normal Invoice"
ScenarioA ==
    [invoice_number |-> <<"I", "N", "V", "-", "2", "0", "2", "5", "-", "0", "0", "1">>,
     date |-> Today,
     vendor |-> <<"A", "c", "m", "e", " ", "C", "o", "r", "p", "o", "r", "a", "t", "i", "o", "n">>,
     total_amount |-> 234567,
     currency |-> USD,
     po_number |-> <<"P", "O", "-", "1", "2", "3", "4", "5">>,
     tax_amount |-> 23456,
     confidence |-> 95]

\* the same invoice number under another approved vendor
OtherVendor ==
    [ScenarioA EXCEPT !.vendor = <<"T", "e", "c", "h", " ", "S", "o", "l", "u", "t", "i", "o", "n", "s", " ", "I", "n", "c">>]

\* an invoice that already scores 0.65 on its own: very high and round
\* amount (0.3 + 0.15), no date (0.2)
BigRound ==
    [invoice_number |-> <<"I", "N", "V", "-", "9">>,
     date |-> None,
     vendor |-> <<"S", "h", "a", "d", "y", " ", "B", "u", "s", "i", "n", "e", "s", "s", " ", "L", "L", "C">>,
     total_amount |-> 5000000,
     currency |-> USD,
     po_number |-> None,
     tax_amount |-> NoneNum,
     confidence |-> 75]

\* NLPAgent._empty_result: what extract returns for empty text
EmptyResult ==
    [invoice_number |-> None,
     date |-> None,
     vendor |-> None,
     total_amount |-> 0,
     currency |-> USD,
     po_number |-> None,
     tax_amount |-> NoneNum,
     confidence |-> 0]

Invoices == {ScenarioA, OtherVendor, BigRound, EmptyResult}

\* the instants at which the clock is observed, straddling the one-hour and
\* 24-hour windows of the frequency check
ClockTicks == {1800, 3600, 86400}

NoResult == [status |-> "none"]

\* detect calls per behaviour
MaxCalls == 3

---------------------------------------------------------------------------
(* NLPAgent. The raw text is a list of lines; a line is given by what the
   patterns of NLPAgent.patterns and the entity recogniser read in it:
     invoice_number  group 1 of each of the four invoice-number patterns
     date            the match of each of the four date patterns, normalised
     org             the ORG entity kept by _extract_vendor
     company         the line itself if the capitalised-words fallback takes it
     total           group 1 of each of the four total patterns, in cents
     amount          the largest positive match of the generic amount
                     pattern, in cents (0 if none)
     po_number       group 1 of each of the three PO patterns
     tax             group 1 of the tax pattern, in cents
     marks           the currency marks in the line
   No pattern of these lines matches across a line break. *)

\* the line "   "
BlankLine ==
    [blank |-> TRUE,
     invoice_number |-> <<None, None, None, None>>,
     date |-> <<None, None, None, None>>,
     org |-> None,
     company |-> None,
     total |-> <<NoneNum, NoneNum, NoneNum, NoneNum>>,
     amount |-> 0,
     po_number |-> <<None, None, None>>,
     tax |-> NoneNum,
     marks |-> {}]

\* the line "Invoice #: INV-2025-001"; the generic amount pattern reads
\* 202, 5 and 001 in it
InvLine ==
    [blank |-> FALSE,
     invoice_number |-> <<<<"I", "N", "V", "-", "2", "0", "2", "5", "-", "0", "0", "1">>, None, <<"o", "i", "c", "e">>, <<"I", "N", "V", "-", "2", "0", "2", "5">>>>,
     date |-> <<None, None, None, None>>,
     org |-> None,
     company |-> None,
     total |-> <<NoneNum, NoneNum, NoneNum, NoneNum>>,
     amount |-> 20200,
     po_number |-> <<None, None, None>>,
     tax |-> NoneNum,
     marks |-> {}]

\* the line "Date: 01/01/2025", normalised by %m/%d/%Y
DateLine ==
    [blank |-> FALSE,
     invoice_number |-> <<None, None, None, None>>,
     date |-> <<<<"2", "0", "2", "5", "-", "0", "1", "-", "0", "1">>, None, None, None>>,
     org |-> None,
     company |-> None,
     total |-> <<NoneNum, NoneNum, NoneNum, NoneNum>>,
     amount |-> 20200,
     po_number |-> <<None, None, None>>,
     tax |-> NoneNum,
     marks |-> {}]

\* the line "Acme Corporation", which the entity recogniser labels ORG
AcmeLine ==
    [blank |-> FALSE,
     invoice_number |-> <<None, None, None, None>>,
     date |-> <<None, None, None, None>>,
     org |-> <<"A", "c", "m", "e", " ", "C", "o", "r", "p", "o", "r", "a", "t", "i", "o", "n">>,
     company |-> <<"A", "c", "m", "e", " ", "C", "o", "r", "p", "o", "r", "a", "t", "i", "o", "n">>,
     total |-> <<NoneNum, NoneNum, NoneNum, NoneNum>>,
     amount |-> 0,
     po_number |-> <<None, None, None>>,
     tax |-> NoneNum,
     marks |-> {}]

\* the line "Tech Solutions Inc", found by the capitalised-words fallback only
TechLine ==
    [blank |-> FALSE,
     invoice_number |-> <<None, None, None, None>>,
     date |-> <<None, None, None, None>>,
     org |-> None,
     company |-> <<"T", "e", "c", "h", " ", "S", "o", "l", "u", "t", "i", "o", "n", "s", " ", "I", "n", "c">>,
     total |-> <<NoneNum, NoneNum, NoneNum, NoneNum>>,
     amount |-> 0,
     po_number |-> <<None, None, None>>,
     tax |-> NoneNum,
     marks |-> {}]

\* the line "Total: $2,345.67"
TotalLine ==
    [blank |-> FALSE,
     invoice_number |-> <<None, None, None, None>>,
     date |-> <<None, None, None, None>>,
     org |-> None,
     company |-> None,
     total |-> <<NoneNum, 234567, NoneNum, NoneNum>>,
     amount |-> 234567,
     po_number |-> <<None, None, None>>,
     tax |-> NoneNum,
     marks |-> {"$"}]

\* the line "PO #: PO-12345"; it also passes for a company name, and the
\* generic amount pattern reads 123 and 45 in it
PoLine ==
    [blank |-> FALSE,
     invoice_number |-> <<None, None, None, None>>,
     date |-> <<None, None, None, None>>,
     org |-> None,
     company |-> <<"P", "O", " ", "#", ":", " ", "P", "O", "-", "1", "2", "3", "4", "5">>,
     total |-> <<NoneNum, NoneNum, NoneNum, NoneNum>>,
     amount |-> 12300,
     po_number |-> <<<<"P", "O", "-", "1", "2", "3", "4", "5">>, None, None>>,
     tax |-> NoneNum,
     marks |-> {}]

\* the line "Tax (10%): $234.56"
TaxLine ==
    [blank |-> FALSE,
     invoice_number |-> <<None, None, None, None>>,
     date |-> <<None, None, None, None>>,
     org |-> None,
     company |-> None,
     total |-> <<NoneNum, NoneNum, NoneNum, NoneNum>>,
     amount |-> 23456,
     po_number |-> <<None, None, None>>,
     tax |-> 23456,
     marks |-> {"$"}]

\* the line "Thank you"
JunkLine ==
    [blank |-> FALSE,
     invoice_number |-> <<None, None, None, None>>,
     date |-> <<None, None, None, None>>,
     org |-> None,
     company |-> None,
     total |-> <<NoneNum, NoneNum, NoneNum, NoneNum>>,
     amount |-> 0,
     po_number |-> <<None, None, None>>,
     tax |-> NoneNum,
     marks |-> {}]


Lines ==
    {BlankLine, InvLine, DateLine, AcmeLine, TechLine, TotalLine, PoLine,
     TaxLine, JunkLine}

\* not raw_text or len(raw_text.strip()) == 0
is_blank(text) == \A i \in 1..Len(text) : text[i].blank

\* the patterns of one field are tried in order, each over the whole text:
\* the result is the first match of the first pattern that matches
search_patterns(text, field, n, none) ==
    LET hits(p) == {i \in 1..Len(text) : text[i][field][p] # none}
        found == {p \in 1..n : hits(p) # {}}
    IN IF found = {}
       THEN none
       ELSE text[Min(hits(Min(found)))][field][Min(found)]

extract_invoice_number(text) == search_patterns(text, "invoice_number", 4, None)

extract_date(text) == search_patterns(text, "date", 4, None)

\* the first ORG entity of the first 15 lines, else the first of the first
\* 5 lines that looks like a company name
extract_vendor(text) ==
    LET orgs == {i \in 1..Len(text) :
                    i <= 15 /\ text[i].org # None}
        names == {i \in 1..Len(text) : i <= 5 /\ text[i].company # None}
    IN IF orgs # {} THEN text[Min(orgs)].org
       ELSE IF names # {} THEN text[Min(names)].company
       ELSE None

\* a total pattern, else the largest amount of the document, else 0.0
extract_total(text) ==
    LET total == search_patterns(text, "total", 4, NoneNum)
        amounts == {text[i].amount : i \in 1..Len(text)} \ {0}
    IN IF total # NoneNum THEN total
       ELSE IF amounts # {}
            THEN CHOOSE a \in amounts : \A b \in amounts : b <= a
            ELSE 0

extract_po_number(text) == search_patterns(text, "po_number", 3, None)

extract_tax(text) ==
    LET hits == {i \in 1..Len(text) : text[i].tax # NoneNum}
    IN IF hits = {} THEN NoneNum ELSE text[Min(hits)].tax

detect_currency(text) ==
    LET marks == UNION {text[i].marks : i \in 1..Len(text)}
    IN IF "$" \in marks
       THEN IF "CAD" \in marks THEN <<"C", "A", "D">>
            ELSE IF "AUD" \in marks THEN <<"A", "U", "D">>
            ELSE USD
       ELSE IF "EUR" \in marks THEN <<"E", "U", "R">>
       ELSE IF "GBP" \in marks THEN <<"G", "B", "P">>
       ELSE IF "JPY" \in marks THEN <<"J", "P", "Y">>
       ELSE IF "INR" \in marks THEN <<"I", "N", "R">>
       ELSE USD

\* 0.25 for each critical field found
calculate_confidence(inv_num, date, vendor, amount) ==
    (IF Truthy(inv_num) THEN 25 ELSE 0)
    + (IF Truthy(date) THEN 25 ELSE 0)
    + (IF Truthy(vendor) THEN 25 ELSE 0)
    + (IF amount > 0 THEN 25 ELSE 0)

\* NLPAgent._empty_result
empty_result ==
    [invoice_number |-> None,
     date |-> None,
     vendor |-> None,
     total_amount |-> 0,
     currency |-> USD,
     po_number |-> None,
     tax_amount |-> NoneNum,
     line_items |-> <<>>,
     confidence |-> 0,
     status |-> "error"]

extract_fields(raw) ==
    [invoice_number |-> extract_invoice_number(raw),
     date |-> extract_date(raw),
     vendor |-> extract_vendor(raw),
     total_amount |-> extract_total(raw),
     currency |-> detect_currency(raw),
     po_number |-> extract_po_number(raw),
     tax_amount |-> extract_tax(raw),
     line_items |-> <<>>,
     confidence |-> calculate_confidence(extract_invoice_number(raw),
                                         extract_date(raw), extract_vendor(raw),
                                         extract_total(raw)),
     status |-> "success"]

\* mutant: no test for an empty text
extract_no_guard(raw) == extract_fields(raw)

\* NLPAgent.extract
extract(raw) ==
    IF is_blank(raw) THEN empty_result ELSE extract_fields(raw)

---------------------------------------------------------------------------
(* The caller of test_phase2.test_scenario: detect, check_compliance and
   decide on one invoice after the other, sharing one FraudAgent *)

Init ==
    /\ processed_invoices = <<>>
    /\ now = 0
    /\ submitted = <<>>
    /\ pc = "idle"
    /\ data = NoResult
    /\ fraud_result = NoResult
    /\ policy_result = NoResult
    /\ decision_result = NoResult
    /\ runs = <<>>
    /\ raw_text = <<>>

\* await fraud_agent.detect(inv): the checks, then _store_invoice
DetectCall(inv) ==
    /\ data' = inv
    /\ fraud_result' = detect(processed_invoices, inv, now)
    /\ processed_invoices' = store_invoice(processed_invoices, inv, now)
    /\ submitted' = Append(submitted, LedgerEntry(inv, now))

TestDetect ==
    /\ pc = "idle"
    /\ Len(submitted) < MaxCalls
    /\ \E inv \in Invoices : DetectCall(inv)
    /\ pc' = "check_compliance"
    /\ UNCHANGED <<now, policy_result, decision_result, runs, raw_text>>

TestPolicy ==
    /\ pc = "check_compliance"
    /\ policy_result' = check_compliance(data, now)
    /\ pc' = "decide"
    /\ UNCHANGED <<processed_invoices, now, submitted, data, fraud_result,
                   decision_result, runs, raw_text>>

Decide ==
    /\ pc = "decide"
    /\ decision_result' = decide(data, fraud_result, policy_result)
    /\ pc' = "idle"
    /\ UNCHANGED <<processed_invoices, now, submitted, data, fraud_result,
                   policy_result, runs, raw_text>>

\* time passes
Tick ==
    /\ \E t \in ClockTicks : t > now /\ now' = t
    /\ UNCHANGED <<processed_invoices, submitted, pc, data, fraud_result,
                   policy_result, decision_result, runs, raw_text>>

Next == TestDetect \/ TestPolicy \/ Decide \/ Tick

Spec == Init /\ [][Next]_vars

---------------------------------------------------------------------------
(* DecisionAgent.decide as a function: every combination of its inputs *)

RiskLevels == {"MINIMAL", "LOW", "MEDIUM", "HIGH"}

\* risk scores around the thresholds 0.2, 0.3, 0.4 and 0.7
ScoreSamples == {0, 19, 20, 29, 30, 39, 40, 69, 70, 100}

\* extraction confidences around the threshold 0.75
ConfidenceSamples == {0, 50, 74, 75, 95, 100}

\* one amount (in cents) in each spending tier
AmountSamples == {234567, 750000, 2000000, 4000000, 7512345}

ViolationMessages ==
    <<"Missing required fields", "Vendor is not in approved vendor list",
      "PO number required", "Amount exceeds maximum allowed">>

WarningMessages ==
    <<"Vendor name is similar - verify exact match", "Amount requires approval",
      "Invoice number is too short", "Invoice is getting old", "Unusual currency">>

\* the longest violations and warnings lists that are drawn
MaxViolations == 2
MaxWarnings == 3

AddedViolation == "Invoice date is too old"

InitDecide ==
    /\ processed_invoices = <<>>
    /\ now = 0
    /\ submitted = <<>>
    /\ runs = <<>>
    /\ raw_text = <<>>
    /\ pc = "decide"
    /\ \E c \in ConfidenceSamples, a \in AmountSamples :
          data = [ScenarioA EXCEPT !.confidence = c, !.total_amount = a]
    /\ \E l \in RiskLevels, sc \in ScoreSamples, su \in BOOLEAN :
          fraud_result = [is_suspicious |-> su, risk_score |-> sc,
                          risk_level |-> l]
    /\ \E v \in 0..MaxViolations, w \in 0..MaxWarnings :
          policy_result = PolicyResult(SubSeq(ViolationMessages, 1, v),
                                       SubSeq(WarningMessages, 1, w),
                                       check_spending_limit(data.total_amount))
    /\ decision_result = NoResult

\* check_compliance found one more violation on the same invoice; the
\* decision is taken again on the new assessment
AddViolation ==
    /\ pc = "idle"
    /\ decision_result # NoResult
    /\ Len(policy_result.violations) < MaxViolations
    /\ policy_result' =
           PolicyResult(Append(policy_result.violations, AddedViolation),
                        policy_result.warnings,
                        check_spending_limit(data.total_amount))
    /\ decision_result' = decide(data, fraud_result, policy_result')
    /\ UNCHANGED <<processed_invoices, now, submitted, pc, data, fraud_result,
                   runs, raw_text>>

NextDecide == Decide \/ AddViolation

SpecDecide == InitDecide /\ [][NextDecide]_vars

\* the ten rows of the decision table of the specification, in order
DecisionTable(e, f, p) ==
    <<[c |-> f.risk_level = "HIGH" \/ f.risk_score >= 70, s |-> "REJECT", k |-> 95],
      [c |-> Len(p.violations) >= 1, s |-> "REJECT", k |-> 90],
      [c |-> f.risk_level = "MEDIUM" \/ f.risk_score >= 40, s |-> "HOLD", k |-> 80],
      [c |-> p.approval_level \in {"requires_cfo", "requires_board"},
       s |-> "HOLD", k |-> 85],
      [c |-> Len(p.warnings) > 2, s |-> "HOLD", k |-> 75],
      [c |-> e.confidence < 75, s |-> "HOLD", k |-> 70],
      [c |-> p.approval_level = "requires_director", s |-> "HOLD", k |-> 85],
      [c |-> p.approval_level = "requires_manager", s |-> "APPROVE", k |-> 80],
      [c |-> f.risk_level = "LOW" \/ (f.risk_score < 30 /\ f.is_suspicious),
       s |-> "APPROVE", k |-> 75],
      [c |-> TRUE, s |-> "APPROVE", k |-> 95]>>

FirstMatch(rows) == rows[Min({i \in 1..Len(rows) : rows[i].c})]

IsHighFraud(f) == f.risk_level = "HIGH" \/ f.risk_score >= 70

C2_FraudPrecedence ==
    (decision_result # NoResult /\ IsHighFraud(fraud_result)) =>
        /\ decision_result.decision = "REJECT"
        /\ decision_result.confidence = 95

\* a high-fraud rejection of an invoice that also has violations, more than
\* two warnings, board-level amount and low confidence
C2_Witness ==
    /\ decision_result # NoResult
    /\ fraud_result.risk_score >= 70
    /\ fraud_result.risk_level = "MINIMAL"
    /\ Len(policy_result.violations) = MaxViolations
    /\ Len(policy_result.warnings) = MaxWarnings
    /\ policy_result.approval_level = "requires_board"
    /\ data.confidence < 75
    /\ decision_result.decision = "REJECT"

\* C3: adding one violation to a compliant assessment that is not a
\* high-fraud rejection makes compliant false and the decision REJECT with
\* confidence 0.90, whatever the decision was before.
C3_ViolationRejects ==
    [][(/\ decision_result # NoResult
        /\ policy_result.compliant
        /\ ~IsHighFraud(fraud_result)
        /\ Len(policy_result'.violations) = Len(policy_result.violations) + 1)
       => (/\ decision_result.decision \in {"APPROVE", "HOLD"}
           /\ ~policy_result'.compliant
           /\ decision_result'.decision = "REJECT"
           /\ decision_result'.confidence = 90)]_vars

\* a medium-fraud case (HOLD before) rejected for the added violation alone
C3_Witness ==
    /\ decision_result # NoResult
    /\ policy_result.violations = <<AddedViolation>>
    /\ fraud_result.risk_level = "MEDIUM"
    /\ fraud_result.risk_score = 69
    /\ decision_result.decision = "REJECT"
    /\ decision_result.confidence = 90

---------------------------------------------------------------------------
(* Claims on detect and the ledger, for the sequential caller *)

DuplicateFlagged(fr) ==
    \E i \in 1..Len(fr.flags) : fr.flags[i] = "Duplicate invoice"

FrequencyFlagged(fr) == fr.details.frequency_check.suspicious

\* this step is one detect call
DetectStep == Len(submitted') = Len(submitted) + 1

\* the ledger holds an entry with this invoice number and this vendor
HoldsKey(ledger, d) ==
    \E i \in 1..Len(ledger) :
        /\ ledger[i].invoice_number = d.invoice_number
        /\ ledger[i].vendor = d.vendor

\* C4: for an invoice with a non-empty invoice number, detect raises the
\* duplicate flag exactly when the ledger it is called on holds an entry
\* with the same invoice number and the same vendor, wherever that entry is.
C4_DuplicateIff ==
    [][(DetectStep /\ Truthy(data'.invoice_number))
       => (DuplicateFlagged(fraud_result')
           <=> HoldsKey(processed_invoices, data'))]_vars

\* C5: an invoice submitted to detect twice in a row is flagged duplicate
\* the second time and scores at least 0.5 more than the first time. Stated
\* for invoices with an invoice number whose first submission was not itself
\* flagged and left room for 0.5 below the cap of 1.0.
C5_SecondScoresHigher ==
    [][(/\ DetectStep
        /\ fraud_result # NoResult
        /\ data' = data
        /\ Truthy(data.invoice_number)
        /\ ~DuplicateFlagged(fraud_result)
        /\ fraud_result.risk_score + 50 <= 100)
       => (/\ DuplicateFlagged(fraud_result')
           /\ fraud_result'.risk_score >= fraud_result.risk_score + 50)]_vars

\* C6: Scenario A run twice from an empty ledger, nothing in between: the
\* second run is flagged duplicate and decided REJECT (0.90 or 0.95).
C6_DuplicateRejected ==
    (/\ pc = "idle"
     /\ decision_result # NoResult
     /\ Len(submitted) = 2
     /\ data = ScenarioA
     /\ HoldsKey(SubSeq(submitted, 1, 1), ScenarioA))
    => (/\ DuplicateFlagged(fraud_result)
        /\ decision_result.decision = "REJECT"
        /\ decision_result.confidence \in {90, 95})

\* C9: every detect call appends exactly one entry, the one of its invoice,
\* whatever the assessment is, and its duplicate and frequency checks read
\* the ledger without that entry: a duplicate flag needs an earlier entry of
\* the same key, a frequency flag needs two earlier entries of the vendor.
C9_AppendAfterChecks ==
    [][DetectStep =>
        LET before == processed_invoices
            d == data'
            r == fraud_result'
        IN /\ Len(before) < LedgerCapacity
              => processed_invoices' = Append(before, LedgerEntry(d, now))
           /\ DuplicateFlagged(r) => HoldsKey(before, d)
           /\ FrequencyFlagged(r) =>
                 Cardinality({i \in 1..Len(before) :
                                 before[i].vendor = d.vendor}) >= 2
           /\ r.details.duplicate_check =
                 check_duplicate(before, d.invoice_number, d.vendor)
           /\ r.details.frequency_check =
                 check_vendor_frequency(before, d.vendor, now)]_vars

\* the first detect call on Scenario A: one entry stored, no flag raised
C9_Witness ==
    /\ pc = "check_compliance"
    /\ data = ScenarioA
    /\ processed_invoices = <<LedgerEntry(ScenarioA, now)>>
    /\ ~DuplicateFlagged(fraud_result)
    /\ fraud_result.risk_score = 0

---------------------------------------------------------------------------
(* A long run of detect calls: a batch of one invoice, then a batch of
   another, past the capacity of the ledger *)

\* detect calls per behaviour of the long run
MaxCapCalls == 102

CapFeed ==
    IF submitted # <<>> /\ submitted[Len(submitted)].vendor = BigRound.vendor
    THEN {BigRound}
    ELSE {ScenarioA, BigRound}

CapDetect ==
    /\ Len(submitted) < MaxCapCalls
    /\ \E inv \in CapFeed : DetectCall(inv)
    /\ UNCHANGED <<now, pc, policy_result, decision_result, runs, raw_text>>

NextCap == CapDetect

SpecCap == Init /\ [][NextCap]_vars

\* C7: the ledger never holds more than 100 entries.
C7_LedgerBounded == Len(processed_invoices) <= LedgerCapacity

\* a full ledger after more than 100 detect calls
C7_Witness ==
    /\ Len(submitted) > LedgerCapacity
    /\ Len(processed_invoices) = LedgerCapacity

\* the last n elements of a sequence
LastN(seq, n) == SubSeq(seq, Len(seq) - n + 1, Len(seq))

\* C8: after n detect calls the ledger is the entries of the last
\* min(n, 100) calls, in the order of the calls.
C8_LedgerIsRecentHistory ==
    processed_invoices =
        LastN(submitted, IF Len(submitted) < LedgerCapacity
                         THEN Len(submitted) ELSE LedgerCapacity)

\* two entries evicted, and both batches present in the ledger
C8_Witness ==
    /\ Len(submitted) = LedgerCapacity + 2
    /\ processed_invoices[1].vendor = ScenarioA.vendor
    /\ processed_invoices[LedgerCapacity].vendor = BigRound.vendor
    /\ submitted[3] = processed_invoices[1]

---------------------------------------------------------------------------
(* NLPAgent.extract as a function of the text *)

\* the longest text drawn line by line
MaxLines == 2

\* a complete invoice of the given vendor line
InvoiceText(vendor_line) ==
    <<vendor_line, InvLine, DateLine, TotalLine, PoLine, TaxLine>>

Texts ==
    UNION {[1..n -> Lines] : n \in 0..MaxLines}
    \cup {InvoiceText(AcmeLine), InvoiceText(TechLine)}

InitExtract ==
    /\ processed_invoices = <<>>
    /\ now = 0
    /\ submitted = <<>>
    /\ runs = <<>>
    /\ raw_text \in Texts
    /\ pc = "extract"
    /\ data = NoResult
    /\ fraud_result = NoResult
    /\ policy_result = NoResult
    /\ decision_result = NoResult

\* await nlp_agent.extract(raw_text)
TestExtract ==
    /\ pc = "extract"
    /\ data' = extract(raw_text)
    /\ pc' = "idle"
    /\ UNCHANGED <<processed_invoices, now, submitted, fraud_result,
                   policy_result, decision_result, runs, raw_text>>

NextExtract == TestExtract

SpecExtract == InitExtract /\ [][NextExtract]_vars

\* the critical fields present in an extraction
FoundFields(d) ==
    {f \in {"invoice_number", "date", "vendor"} : Truthy(d[f])}
    \cup (IF d.total_amount > 0 THEN {"total_amount"} ELSE {})

\* C20: on an empty or whitespace-only text, extract returns the all-null
\* invoice (total 0, currency USD, confidence 0, no line items) with status
\* error; on every other text it returns status success (the "ok" of the
\* specification), and the confidence is 0.25 for each critical field found.
C20_ExtractContract ==
    (pc = "idle" /\ data # NoResult) =>
        IF \A i \in 1..Len(raw_text) : raw_text[i] = BlankLine
        THEN /\ data.status = "error"
             /\ data.invoice_number = None
             /\ data.vendor = None
             /\ data.date = None
             /\ data.po_number = None
             /\ data.tax_amount = NoneNum
             /\ data.total_amount = 0
             /\ data.currency = USD
             /\ data.confidence = 0
             /\ data.line_items = <<>>
        ELSE /\ data.status = "success"
             /\ data.total_amount >= 0
             /\ data.confidence = 25 * Cardinality(FoundFields(data))

\* a whitespace-only text of two lines, answered with the error result
C20_Witness ==
    /\ pc = "idle"
    /\ raw_text = <<BlankLine, BlankLine>>
    /\ data.status = "error"
    /\ data.confidence = 0

---------------------------------------------------------------------------
(* ProgressTracker (api/websocket.py). sent is the list of the messages
   handed to manager.broadcast_to_session, each a snapshot of the tracker. *)

\* a run_pipeline call with progress_tracker=None
NoTracker == [present |-> FALSE]

\* ProgressTracker(session_id)
NewTracker ==
    [present |-> TRUE,
     steps |-> [i \in 1..5 |-> [status |-> "pending", progress |-> 0]],
     current_step |-> 0,
     overall_progress |-> 0,
     sent |-> <<>>]

\* ProgressTracker._send_update
send_update(tr) ==
    [tr EXCEPT !.sent = Append(@, [type |-> "progress",
                                   steps |-> tr.steps,
                                   current_step |-> tr.current_step,
                                   overall_progress |-> tr.overall_progress])]

\* ProgressTracker.start_step
start_step(tr, step_index) ==
    IF 0 <= step_index /\ step_index < Len(tr.steps)
    THEN send_update(
           [tr EXCEPT !.steps[step_index + 1] =
                          [status |-> "processing", progress |-> 50],
                      !.current_step = step_index,
                      !.overall_progress =
                          (step_index * 100) \div Len(tr.steps)])
    ELSE tr

\* ProgressTracker.complete_step, with a non-empty result
complete_step(tr, step_index, result) ==
    IF 0 <= step_index /\ step_index < Len(tr.steps)
    THEN send_update(
           [tr EXCEPT !.steps[step_index + 1] =
                          [status |-> "complete", progress |-> 100,
                           result |-> result],
                      !.overall_progress =
                          ((step_index + 1) * 100) \div Len(tr.steps)])
    ELSE tr

\* mutant: the step is reported complete before it is reported started
track_step_reversed(tr, step_index, result) ==
    IF tr = NoTracker
    THEN tr
    ELSE start_step(complete_step(tr, step_index, result), step_index)

\* if progress_tracker: start_step(i); the stage; complete_step(i, result)
track_step(tr, step_index, result) ==
    IF tr = NoTracker
    THEN tr
    ELSE complete_step(start_step(tr, step_index), step_index, result)

---------------------------------------------------------------------------
(* Orchestrator.run_pipeline: concurrent invocations on the API's one
   Orchestrator, hence on one FraudAgent. An invocation can be suspended
   only at an await of run_pipeline, that is between two stages; detect has
   no await in its body, so its checks and its _store_invoice run without
   another invocation in between. *)

\* concurrent invocations
NumRuns == 2

RunIds == 1..NumRuns

\* the texts of the uploaded documents
PipeTexts == {InvoiceText(AcmeLine), InvoiceText(TechLine), <<BlankLine>>}

\* what the documents of the invocations extract to
PipeDocs == {extract(t) : t \in PipeTexts}

\* the ledger left by earlier invocations
StartLedgers == {<<>>} \cup {<<LedgerEntry(inv, 0)>> : inv \in PipeDocs}

\* position is the place of the invocation's entry in the history of detect
\* calls (0 before its detect); trace lists the stages it has run
NewRun(tracker, text) ==
    [pc |-> "extract", tracker |-> tracker, raw_text |-> text,
     extraction |-> NoResult, fraud |-> NoResult, policy |-> NoResult,
     decision |-> NoResult, position |-> 0, trace |-> <<>>]

\* the invocations a request can start: without and with a tracker, on each
\* of the documents. Invocations carry no identity of their own, so InitPipe
\* starts one state for each multiset of them.
StartRuns ==
    <<NewRun(NoTracker, <<BlankLine>>), NewRun(NewTracker, <<BlankLine>>),
      NewRun(NoTracker, InvoiceText(AcmeLine)),
      NewRun(NewTracker, InvoiceText(AcmeLine)),
      NewRun(NoTracker, InvoiceText(TechLine)),
      NewRun(NewTracker, InvoiceText(TechLine))>>

InitPipe ==
    /\ processed_invoices \in StartLedgers
    /\ submitted = processed_invoices
    /\ now = 0
    /\ pc = "idle"
    /\ data = NoResult
    /\ fraud_result = NoResult
    /\ policy_result = NoResult
    /\ decision_result = NoResult
    /\ raw_text = <<>>
    /\ \E idx \in [RunIds -> 1..Len(StartRuns)] :
           /\ \A r \in RunIds \ {NumRuns} : idx[r] <= idx[r + 1]
           /\ runs = [r \in RunIds |-> StartRuns[idx[r]]]

Harness ==
    <<pc, data, fraud_result, policy_result, decision_result, raw_text>>

\* steps 1 and 2: vision_agent.process, then nlp_agent.extract
extract_stage(run) ==
    LET e == extract(run.raw_text)
        t0 == track_step(run.tracker, 0,
                         [text_length |-> Len(run.raw_text),
                          confidence |-> 0])
    IN [run EXCEPT
           !.extraction = e,
           !.tracker = track_step(t0, 1,
                           [invoice_number |-> e.invoice_number,
                            vendor |-> e.vendor,
                            amount |-> e.total_amount,
                            confidence |-> e.confidence]),
           !.trace = Append(@, "extract"),
           !.pc = "fraud"]

\* mutant: with a tracker, the fraud stage hands on the summary it reported
fraud_stage_reported(run, ledger, t, place) ==
    LET f == detect(ledger, run.extraction, t)
        summary == [risk_level |-> f.risk_level,
                    risk_score |-> f.risk_score,
                    is_suspicious |-> f.is_suspicious,
                    flags_count |-> Len(f.flags)]
    IN [run EXCEPT
           !.fraud = IF run.tracker = NoTracker THEN f ELSE summary,
           !.tracker = track_step(@, 2, summary),
           !.position = place,
           !.trace = Append(@, "fraud"),
           !.pc = "policy"]

\* step 3: fraud_agent.detect(extraction_result)
fraud_stage(run, ledger, t, place) ==
    LET f == detect(ledger, run.extraction, t)
    IN [run EXCEPT
           !.fraud = f,
           !.tracker = track_step(@, 2,
                           [risk_level |-> f.risk_level,
                            risk_score |-> f.risk_score,
                            is_suspicious |-> f.is_suspicious,
                            flags_count |-> Len(f.flags)]),
           !.position = place,
           !.trace = Append(@, "fraud"),
           !.pc = "policy"]

\* step 4: the invocation keeps policy_result, the value returned by
\* policy_agent.check_compliance(extraction_result), and reports it
policy_stage(run, p) ==
    [run EXCEPT
        !.policy = p,
        !.tracker = track_step(@, 3,
                        [compliant |-> p.compliant,
                         approval_level |-> p.approval_level,
                         violations_count |-> Len(p.violations),
                         warnings_count |-> Len(p.warnings)]),
        !.trace = Append(@, "policy"),
        !.pc = "decision"]

\* mutant: the results are kept on the shared Orchestrator, so decide gets
\* those of the invocation that stored them last
decide_inputs_shared(rs, r) ==
    LET ready == {q \in DOMAIN rs : rs[q].policy # NoResult}
        last == CHOOSE q \in ready : \A o \in ready : o <= q
    IN [extraction |-> rs[last].extraction, fraud |-> rs[last].fraud,
        policy |-> rs[last].policy]

\* the arguments of decide: the locals of this invocation
decide_inputs(rs, r) ==
    [extraction |-> rs[r].extraction, fraud |-> rs[r].fraud,
     policy |-> rs[r].policy]

\* step 5: decision_agent.decide(extraction, fraud, policy), then return
decision_stage(run, inputs) ==
    LET d == decide(inputs.extraction, inputs.fraud, inputs.policy)
    IN [run EXCEPT
           !.decision = d,
           !.tracker = track_step(@, 4,
                           [decision |-> d.decision,
                            confidence |-> d.confidence,
                            reason |-> d.reason]),
           !.trace = Append(@, "decision"),
           !.pc = "done"]

PipeExtract(r) ==
    /\ runs[r].pc = "extract"
    /\ runs' = [runs EXCEPT ![r] = extract_stage(runs[r])]
    /\ UNCHANGED <<processed_invoices, submitted, now, Harness>>

PipeFraud(r) ==
    /\ runs[r].pc = "fraud"
    /\ processed_invoices' =
           store_invoice(processed_invoices, runs[r].extraction, now)
    /\ submitted' = Append(submitted, LedgerEntry(runs[r].extraction, now))
    /\ runs' = [runs EXCEPT
                   ![r] = fraud_stage(runs[r], processed_invoices, now,
                                      Len(submitted) + 1)]
    /\ UNCHANGED <<now, Harness>>

PipePolicy(r) ==
    /\ runs[r].pc = "policy"
    /\ \E p \in {check_compliance(runs[r].extraction, now)} :
           runs' = [runs EXCEPT ![r] = policy_stage(runs[r], p)]
    /\ UNCHANGED <<processed_invoices, submitted, now, Harness>>

PipeDecide(r) ==
    /\ runs[r].pc = "decision"
    /\ runs' = [runs EXCEPT
                   ![r] = decision_stage(runs[r], decide_inputs(runs, r))]
    /\ UNCHANGED <<processed_invoices, submitted, now, Harness>>

NextPipe ==
    \E r \in RunIds :
        PipeExtract(r) \/ PipeFraud(r) \/ PipePolicy(r) \/ PipeDecide(r)

SpecPipe == InitPipe /\ [][NextPipe]_vars

\* C10: of two concurrent invocations that submit the same invoice number
\* and vendor, the one whose detect runs first is not flagged and the one
\* whose detect runs later is flagged duplicate: never both unflagged.
\* Stated for a non-empty invoice number and a ledger that did not hold the
\* pair before the two invocations.
C10_LaterRunFlagged ==
    \A r1, r2 \in RunIds :
        (/\ runs[r1].fraud # NoResult
         /\ runs[r2].fraud # NoResult
         /\ runs[r1].position < runs[r2].position
         /\ runs[r1].extraction.invoice_number = runs[r2].extraction.invoice_number
         /\ runs[r1].extraction.vendor = runs[r2].extraction.vendor
         /\ Truthy(runs[r1].extraction.invoice_number)
         /\ ~HoldsKey(SubSeq(submitted, 1, runs[r1].position - 1),
                      runs[r1].extraction))
        => (/\ ~DuplicateFlagged(runs[r1].fraud)
            /\ DuplicateFlagged(runs[r2].fraud))

---------------------------------------------------------------------------
(* Invocations that do not return: run_pipeline has no try; whatever a
   statement of a stage raises (the print calls of the agents write to
   stdout, the tracker awaits a send) leaves run_pipeline at that point and
   is caught by upload_invoice, which answers 500. *)

\* the invocation is left at the stage it was about to run
PipeFail(r) ==
    /\ runs[r].pc \in {"extract", "fraud", "policy", "decision"}
    /\ runs' = [runs EXCEPT ![r].pc = "failed"]
    /\ UNCHANGED <<processed_invoices, submitted, now, Harness>>

NextAbandon == NextPipe \/ \E r \in RunIds : PipeFail(r)

SpecAbandon == InitPipe /\ [][NextAbandon]_vars

\* C11: an invocation that does not complete has appended nothing to the
\* ledger, at whatever point after its start it was abandoned.
C11_AbandonedRunLeavesNothing ==
    \A r \in RunIds : runs[r].pc = "failed" => runs[r].position = 0

---------------------------------------------------------------------------
(* Claims on one invocation among concurrent ones *)

InTrace(trace, stage) == \E i \in 1..Len(trace) : trace[i] = stage

Before(trace, first, second) ==
    \E i, j \in 1..Len(trace) :
        i < j /\ trace[i] = first /\ trace[j] = second

\* C12: in every invocation, extraction has completed before the fraud and
\* the policy stage run, both have completed before the decision stage runs,
\* no stage runs twice, and the decision is decide applied to the
\* extraction, fraud and policy results of this same invocation.
C12_StageOrder ==
    \A r \in RunIds :
        LET run == runs[r]
        IN /\ \A s \in {"fraud", "policy"} :
                  InTrace(run.trace, s) => Before(run.trace, "extract", s)
           /\ InTrace(run.trace, "decision") =>
                  /\ Before(run.trace, "fraud", "decision")
                  /\ Before(run.trace, "policy", "decision")
           /\ \A i, j \in 1..Len(run.trace) :
                  run.trace[i] = run.trace[j] => i = j
           /\ run.decision # NoResult =>
                  /\ run.extraction # NoResult
                  /\ run.fraud # NoResult
                  /\ run.policy # NoResult
                  /\ run.decision =
                         decide(run.extraction, run.fraud, run.policy)

\* two invocations on different documents, both returned, the second one
\* having run its fraud stage first, with different decisions
C12_Witness ==
    /\ runs[1].pc = "done"
    /\ runs[2].pc = "done"
    /\ runs[2].position < runs[1].position
    /\ runs[1].raw_text = <<BlankLine>>
    /\ runs[2].raw_text = InvoiceText(AcmeLine)
    /\ runs[1].decision.decision = "REJECT"
    /\ runs[2].decision.decision = "APPROVE"

\* C14: what an invocation returns and what it leaves in the ledger is a
\* function of its document, of the ledger before its fraud stage and of the
\* clock alone, the same with a progress tracker and without one; the
\* ledger grows by the one entry of each fraud stage and by nothing else.
C14_TrackerNoInfluence ==
    /\ processed_invoices = submitted
    /\ \A r \in RunIds :
          runs[r].pc = "done" =>
              LET run == runs[r]
                  before == SubSeq(submitted, 1, run.position - 1)
              IN /\ run.extraction = extract(run.raw_text)
                 /\ run.fraud = detect(before, run.extraction, now)
                 /\ run.policy = check_compliance(run.extraction, now)
                 /\ run.decision =
                        decide(run.extraction, run.fraud, run.policy)
                 /\ submitted[run.position] =
                        LedgerEntry(run.extraction, now)
    /\ \A r1, r2 \in RunIds :
          (/\ runs[r1].pc = "done"
           /\ runs[r2].pc = "done"
           /\ runs[r1].raw_text = runs[r2].raw_text)
          => (/\ runs[r1].extraction = runs[r2].extraction
              /\ runs[r1].policy = runs[r2].policy)

\* the same document through an invocation without a tracker and through
\* one with a tracker, which sent its ten updates
C14_Witness ==
    /\ runs[1].pc = "done"
    /\ runs[2].pc = "done"
    /\ runs[1].raw_text = InvoiceText(AcmeLine)
    /\ runs[2].raw_text = InvoiceText(AcmeLine)
    /\ runs[1].tracker = NoTracker
    /\ runs[2].tracker # NoTracker
    /\ Len(runs[2].tracker.sent) = 10
    /\ runs[1].decision.decision = "APPROVE"

---------------------------------------------------------------------------
(* detect and check_compliance on the same invoice in any order: a caller
   that runs the checks of detect, its _store_invoice and check_compliance
   in each of the possible orders, then decide. runs lists the steps taken
   on the current invoice. *)

\* mutant: check_compliance records the invoice in the ledger as well
policy_ledger_stores(ledger, d, t) == store_invoice(ledger, d, t)

\* the ledger after check_compliance: PolicyAgent holds no reference to
\* the FraudAgent and touches no state
policy_ledger(ledger, d, t) == ledger

Taken(step) == \E i \in 1..Len(runs) : runs[i] = step

\* invoices per behaviour
MaxOrderCalls == 2

OrderStart ==
    /\ pc = "idle"
    /\ Len(submitted) < MaxOrderCalls
    /\ data' \in Invoices
    /\ fraud_result' = NoResult
    /\ policy_result' = NoResult
    /\ decision_result' = NoResult
    /\ runs' = <<>>
    /\ pc' = "stages"
    /\ UNCHANGED <<processed_invoices, now, submitted, raw_text>>

\* detect up to its seventh check
OrderChecks ==
    /\ pc = "stages"
    /\ ~Taken("checks")
    /\ fraud_result' = detect(processed_invoices, data, now)
    /\ runs' = Append(runs, "checks")
    /\ UNCHANGED <<processed_invoices, now, submitted, pc, data,
                   policy_result, decision_result, raw_text>>

\* detect from _store_invoice to its return
OrderStore ==
    /\ pc = "stages"
    /\ Taken("checks")
    /\ ~Taken("store")
    /\ processed_invoices' = store_invoice(processed_invoices, data, now)
    /\ submitted' = Append(submitted, LedgerEntry(data, now))
    /\ runs' = Append(runs, "store")
    /\ UNCHANGED <<now, pc, data, fraud_result, policy_result,
                   decision_result, raw_text>>

OrderPolicy ==
    /\ pc = "stages"
    /\ ~Taken("policy")
    /\ policy_result' = check_compliance(data, now)
    /\ processed_invoices' = policy_ledger(processed_invoices, data, now)
    /\ runs' = Append(runs, "policy")
    /\ UNCHANGED <<now, submitted, pc, data, fraud_result, decision_result,
                   raw_text>>

OrderDecide ==
    /\ pc = "stages"
    /\ Taken("store")
    /\ Taken("policy")
    /\ decision_result' = decide(data, fraud_result, policy_result)
    /\ pc' = "idle"
    /\ UNCHANGED <<processed_invoices, now, submitted, data, fraud_result,
                   policy_result, runs, raw_text>>

OrderTick ==
    /\ pc = "idle"
    /\ \E t \in ClockTicks : t > now /\ now' = t
    /\ UNCHANGED <<processed_invoices, submitted, pc, data, fraud_result,
                   policy_result, decision_result, runs, raw_text>>

NextOrder ==
    OrderStart \/ OrderChecks \/ OrderStore \/ OrderPolicy \/ OrderDecide
    \/ OrderTick

SpecOrder == Init /\ [][NextOrder]_vars

\* C13: in whatever order detect and check_compliance run on an invoice,
\* the fraud assessment is detect on the ledger as it was before the
\* invoice, the policy assessment is check_compliance of the invoice, the
\* decision is decide of the two, and the ledger is the old one with the one
\* entry of detect; check_compliance and decide leave the ledger alone and
\* no step changes the invoice.
C13_StagesIndependent ==
    [][pc = "stages" =>
       /\ data' = data
       /\ (Taken("policy")' /\ ~Taken("policy")) =>
              processed_invoices' = processed_invoices
       /\ decision_result' # decision_result =>
              processed_invoices' = processed_invoices
       /\ LET before == IF Taken("store")'
                        THEN SubSeq(submitted', 1, Len(submitted') - 1)
                        ELSE submitted'
          IN /\ Taken("checks")' =>
                    fraud_result' = detect(before, data', now')
             /\ Taken("policy")' =>
                    policy_result' = check_compliance(data', now')
             /\ processed_invoices' =
                    IF Taken("store")'
                    THEN Append(before, LedgerEntry(data', now'))
                    ELSE before
             /\ decision_result' # NoResult =>
                    decision_result' =
                        decide(data', fraud_result', policy_result')]_vars

\* check_compliance ran between the checks of detect and its
\* _store_invoice, on an invoice that detect flagged as a duplicate
C13_Witness ==
    /\ pc = "idle"
    /\ runs = <<"checks", "policy", "store">>
    /\ DuplicateFlagged(fraud_result)
    /\ policy_result.compliant
    /\ decision_result # NoResult

---------------------------------------------------------------------------
(* detect on invoices whose scores meet the level thresholds *)

\* Scenario A without a date: 0.2 alone, 0.7 as a duplicate
NoDate == [ScenarioA EXCEPT !.date = None]

\* a high amount without a date and without tax: 0.2 + 0.2
HighNoDate ==
    [ScenarioA EXCEPT
        !.invoice_number = <<"I", "N", "V", "-", "7">>,
        !.date = None,
        !.total_amount = 1234567,
        !.tax_amount = NoneNum]

LevelFeed == {ScenarioA, NoDate, HighNoDate, EmptyResult}

\* detect calls per behaviour
MaxLevelCalls == 4

LevelDetect ==
    /\ Len(submitted) < MaxLevelCalls
    /\ \E inv \in LevelFeed : DetectCall(inv)
    /\ UNCHANGED <<now, pc, policy_result, decision_result, runs, raw_text>>

NextLevel == LevelDetect

SpecLevel == Init /\ [][NextLevel]_vars

\* the step function of the specification
StepLevel(score) ==
    CASE score >= 70 -> "HIGH"
      [] score >= 40 /\ score < 70 -> "MEDIUM"
      [] score >= 20 /\ score < 40 -> "LOW"
      [] score < 20 -> "MINIMAL"

\* C15: the risk_level of every assessment is the step function of its
\* risk_score, which lies in [0,1]; and over all hundredths of [0,1] the
\* level function is that step function, 0.2, 0.4 and 0.7 included.
C15_LevelIsStepOfScore ==
    /\ \A score \in 0..100 : get_risk_level(score) = StepLevel(score)
    /\ get_risk_level(20) = "LOW"
    /\ get_risk_level(40) = "MEDIUM"
    /\ get_risk_level(70) = "HIGH"
    /\ fraud_result # NoResult =>
          /\ fraud_result.risk_score \in 0..100
          /\ fraud_result.risk_level = StepLevel(fraud_result.risk_score)

\* an assessment at the boundary 0.7, reported HIGH: the invoice without a
\* date, submitted a second time
C15_Witness ==
    /\ fraud_result # NoResult
    /\ fraud_result.risk_score = 70
    /\ fraud_result.risk_level = "HIGH"
    /\ Len(submitted) = 2
    /\ data = NoDate

---------------------------------------------------------------------------
(* The scenarios of test_phase2.py, each from an empty ledger: Scenario A
   with other amounts, PO numbers and tax amounts *)

\* 999.99, 1000.00, 1000.01, Scenario A, Scenario C, Scenario B
ScenarioAmounts == {99999, 100000, 100001, 234567, 323456, 7512345}

PoSamples == {None, <<>>, ScenarioA.po_number}

ScenarioFeed ==
    {[ScenarioA EXCEPT !.total_amount = a, !.po_number = po, !.tax_amount = tax] :
        a \in ScenarioAmounts, po \in PoSamples,
        tax \in {ScenarioA.tax_amount, 751234}}

\* invoices per behaviour
MaxScenarioCalls == 1

ScenarioDetect ==
    /\ pc = "idle"
    /\ Len(submitted) < MaxScenarioCalls
    /\ \E inv \in ScenarioFeed : DetectCall(inv)
    /\ pc' = "check_compliance"
    /\ UNCHANGED <<now, policy_result, decision_result, runs, raw_text>>

NextScenario == ScenarioDetect \/ TestPolicy \/ Decide \/ Tick

SpecScenario == Init /\ [][NextScenario]_vars

\* the first invoice of a behaviour has been decided
FirstDecided ==
    /\ pc = "idle"
    /\ decision_result # NoResult
    /\ Len(submitted) = 1

HasViolation(p, message) ==
    \E i \in 1..Len(p.violations) : p.violations[i] = message

\* C16: Scenario A on an empty ledger is assessed MINIMAL or LOW, is
\* compliant, and is approved by the last rule with confidence 0.95.
C16_CleanInvoiceApproved ==
    (FirstDecided /\ data = ScenarioA) =>
        /\ fraud_result.risk_level \in {"MINIMAL", "LOW"}
        /\ policy_result.compliant
        /\ decision_result.decision = "APPROVE"
        /\ decision_result.confidence = 95
        /\ decision_result.reason = "All checks passed"

\* Scenario A decided, with the one warning of the similar vendor name
C16_Witness ==
    /\ FirstDecided
    /\ data = ScenarioA
    /\ fraud_result.risk_score = 0
    /\ Len(policy_result.warnings) = 1
    /\ decision_result.decision = "APPROVE"

\* Scenario B: Scenario A with the amount 75123.45
IsScenarioB ==
    /\ FirstDecided
    /\ data.total_amount = 7512345
    /\ Truthy(data.po_number)

---------------------------------------------------------------------------
(* Violations and warnings *)

\* C19: compliant holds exactly when there is no violation, whatever the
\* warnings are, and an assessment without violations is rejected only for
\* high fraud risk.
C19_CompliantIffNoViolation ==
    /\ policy_result # NoResult =>
          (policy_result.compliant <=> policy_result.violations = <<>>)
    /\ (/\ decision_result # NoResult
        /\ policy_result.violations = <<>>
        /\ ~IsHighFraud(fraud_result)) =>
          decision_result.decision # "REJECT"

\* a compliant assessment with three warnings, held for the warnings
C19_Witness ==
    /\ decision_result # NoResult
    /\ policy_result.compliant
    /\ Len(policy_result.warnings) = MaxWarnings
    /\ decision_result.decision = "HOLD"
    /\ decision_result.confidence = 75

---------------------------------------------------------------------------
(* The score and the flags of an assessment, from the checks that fired *)

\* the seven checks in the order of detect (the amount check has two
\* branches): whether it fires on this invoice and ledger, its weight in
\* hundredths, its flag
ChecksOf(ledger, d, t) ==
    LET frequency_check == check_vendor_frequency(ledger, d.vendor, t)
        pattern_check == check_invoice_pattern(d.invoice_number)
    IN << [fired |-> check_duplicate(ledger, d.invoice_number,
                                     d.vendor).is_duplicate,
           weight |-> 50, flag |-> "Duplicate invoice"],
          [fired |-> d.total_amount >= Cents(very_high_amount),
           weight |-> 30, flag |-> "Very high amount"],
          [fired |-> /\ d.total_amount >= Cents(high_amount)
                     /\ d.total_amount < Cents(very_high_amount),
           weight |-> 20, flag |-> "High amount"],
          [fired |-> is_suspicious_round_amount(d.total_amount),
           weight |-> 15, flag |-> "Suspicious round amount"],
          [fired |-> frequency_check.suspicious,
           weight |-> 25, flag |-> frequency_check.message],
          [fired |-> check_missing_fields(d) # <<>>,
           weight |-> 20, flag |-> "Missing critical fields"],
          [fired |-> pattern_check.suspicious,
           weight |-> 10, flag |-> pattern_check.message],
          [fired |-> ~check_amount_consistency(d),
           weight |-> 10, flag |-> "Tax calculation appears inconsistent"] >>

RECURSIVE WeightOfFired(_)
WeightOfFired(checks) ==
    IF checks = <<>> THEN 0
    ELSE (IF Head(checks).fired THEN Head(checks).weight ELSE 0)
         + WeightOfFired(Tail(checks))

RECURSIVE FlagsOfFired(_)
FlagsOfFired(checks) ==
    IF checks = <<>> THEN <<>>
    ELSE (IF Head(checks).fired THEN <<Head(checks).flag>> ELSE <<>>)
         \o FlagsOfFired(Tail(checks))

HasFlag(fr, flag) == \E i \in 1..Len(fr.flags) : fr.flags[i] = flag

\* C21: the risk_score of every assessment is min(1.0, sum of the weights of
\* the checks that fired), with the weights 0.5, 0.3 or else 0.2, 0.15,
\* 0.25, 0.2, 0.1, 0.1; it lies in [0,1]; the flags are one string per fired
\* check in check order, or the single sentinel when none fired; the two
\* amount flags never come together.
C21_ScoreIsCappedSum ==
    [][DetectStep =>
        LET checks == ChecksOf(processed_invoices, data', now)
            sum == WeightOfFired(checks)
            fired_flags == FlagsOfFired(checks)
            r == fraud_result'
        IN /\ r.risk_score = Min({100, sum})
           /\ r.risk_score \in 0..100
           /\ r.flags = IF fired_flags = <<>>
                        THEN <<"No fraud indicators detected">>
                        ELSE fired_flags
           /\ r.flags # <<>>
           /\ ~(HasFlag(r, "Very high amount") /\ HasFlag(r, "High amount"))]_vars

\* the third submission of the very high, round, undated invoice within the
\* hour: five checks fire, 0.5 + 0.3 + 0.15 + 0.25 + 0.2 capped at 1.0
C21_Witness ==
    /\ fraud_result # NoResult
    /\ data = BigRound
    /\ Len(submitted) = 3
    /\ Len(fraud_result.flags) = 5
    /\ WeightOfFired(ChecksOf(SubSeq(submitted, 1, 2), BigRound, now)) = 140
    /\ fraud_result.risk_score = 100

---------------------------------------------------------------------------
(* detect calls of two vendors and of an invoice without vendor, spread
   over the one-hour and the 24-hour window *)

FreqFeed == {ScenarioA, OtherVendor, EmptyResult}

\* the instants at which the clock is observed: one second before the end
\* of each window, and its end
FreqTicks == {3599, 3600, 86399, 86400}

\* detect calls per behaviour
MaxFreqCalls == 4

FreqDetect ==
    /\ Len(submitted) < MaxFreqCalls
    /\ \E inv \in FreqFeed : DetectCall(inv)
    /\ UNCHANGED <<now, pc, policy_result, decision_result, runs, raw_text>>

FreqTick ==
    /\ \E t \in FreqTicks : t > now /\ now' = t
    /\ UNCHANGED <<processed_invoices, submitted, pc, data, fraud_result,
                   policy_result, decision_result, runs, raw_text>>

NextFreq == FreqDetect \/ FreqTick

SpecFreq == Init /\ [][NextFreq]_vars

\* the entries of the vendor appended less than window seconds before t
PriorWithin(ledger, vendor, t, window) ==
    Cardinality({i \in 1..Len(ledger) :
                    /\ ledger[i].vendor = vendor
                    /\ t - ledger[i].timestamp < window})

\* C22: the vendor-frequency check fires exactly when the ledger holds at
\* least 2 entries of the vendor appended less than one hour before the
\* assessment, or at least 3 appended less than 24 hours before; it adds its
\* flag and 0.25; it never fires for an invoice without vendor.
C22_FrequencyWindows ==
    [][DetectStep =>
        LET before == processed_invoices
            d == data'
            r == fraud_result'
        IN /\ FrequencyFlagged(r) <=>
                 /\ Truthy(d.vendor)
                 /\ \/ PriorWithin(before, d.vendor, now, 3600) >= 2
                    \/ PriorWithin(before, d.vendor, now, 86400) >= 3
           /\ FrequencyFlagged(r) =>
                 /\ HasFlag(r, r.details.frequency_check.message)
                 /\ r.risk_score >= 25
           /\ ~Truthy(d.vendor) => ~FrequencyFlagged(r)]_vars

\* fired by the 24-hour window alone: three entries of the vendor, all more
\* than an hour old, the oldest one second less than 24 hours old
C22_Witness ==
    /\ fraud_result # NoResult
    /\ FrequencyFlagged(fraud_result)
    /\ now = 86399
    /\ Len(submitted) = 4
    /\ \A i \in 1..3 : /\ submitted[i].vendor = data.vendor
                       /\ submitted[i].timestamp = 0

---------------------------------------------------------------------------
(* check_compliance on Scenario A with one field changed: amounts around
   the spending limits, invoice numbers of each format, dates of each age *)

\* 0, and each spending limit with the cent below and the cent above
PolicyAmounts ==
    {0} \cup {Cents(l) + c :
                 l \in {limit_auto_approve, limit_requires_manager,
                        limit_requires_director, limit_requires_cfo},
                 c \in {0 - 1, 0, 1}}

\* absent, empty, too short, three characters, Scenario A, lower case with
\* hash and dash, with a slash, with a space
PolicyNumbers ==
    {None, <<>>, <<"A", "1">>, <<"I", "N", "V">>, ScenarioA.invoice_number,
     <<"#", "a", "-", "1">>, <<"I", "N", "V", "/", "1">>,
     <<"I", "N", "V", " ", "1">>}

\* today; 30, 31, 90, 91 and 92 days before it; 1, 2 and 3 days after it;
\* the day before in the month-first format; two texts no format reads
PolicyDates ==
    {Today,
     <<"2", "0", "2", "4", "-", "1", "2", "-", "0", "2">>,
     <<"2", "0", "2", "4", "-", "1", "2", "-", "0", "1">>,
     <<"2", "0", "2", "4", "-", "1", "0", "-", "0", "3">>,
     <<"2", "0", "2", "4", "-", "1", "0", "-", "0", "2">>,
     <<"2", "0", "2", "4", "-", "1", "0", "-", "0", "1">>,
     <<"2", "0", "2", "5", "-", "0", "1", "-", "0", "2">>,
     <<"2", "0", "2", "5", "-", "0", "1", "-", "0", "3">>,
     <<"2", "0", "2", "5", "-", "0", "1", "-", "0", "4">>,
     <<"1", "2", "/", "3", "1", "/", "2", "0", "2", "4">>,
     <<"J", "a", "n", " ", "1">>,
     <<"2", "0", "2", "5", "-", "1", "3", "-", "0", "1">>}

PolicyFeed ==
    {[ScenarioA EXCEPT !.total_amount = a] : a \in PolicyAmounts}
    \cup {[ScenarioA EXCEPT !.invoice_number = n] : n \in PolicyNumbers}
    \cup {[ScenarioA EXCEPT !.date = dt] : dt \in PolicyDates}

\* invoices per behaviour
MaxPolicyCalls == 1

PolicyDetect ==
    /\ pc = "idle"
    /\ Len(submitted) < MaxPolicyCalls
    /\ \E inv \in PolicyFeed : DetectCall(inv)
    /\ pc' = "check_compliance"
    /\ UNCHANGED <<now, policy_result, decision_result, runs, raw_text>>

NextPolicy == PolicyDetect \/ TestPolicy \/ Decide \/ Tick

SpecPolicy == Init /\ [][NextPolicy]_vars

\* policy_result is the result of check_compliance on data
PolicyChecked == pc \in {"decide", "idle"} /\ policy_result # NoResult

\* the tier table of the specification, amounts in cents
TierOf(amount) ==
    CASE amount <= 500000 -> [level |-> "auto_approve", approver |-> "System"]
      [] amount > 500000 /\ amount <= 1000000 ->
             [level |-> "requires_manager", approver |-> "Manager"]
      [] amount > 1000000 /\ amount <= 2500000 ->
             [level |-> "requires_director", approver |-> "Director"]
      [] amount > 2500000 /\ amount <= 5000000 ->
             [level |-> "requires_cfo", approver |-> "CFO"]
      [] amount > 5000000 ->
             [level |-> "requires_board", approver |-> "Board of Directors"]

Approvers == {"System", "Manager", "Director", "CFO", "Board of Directors"}

ApprovalWarning(approver) == "Amount requires " \o approver \o " approval"

\* how many warnings of the result are approval warnings for this approver
ApprovalWarnings(p, approver) ==
    Cardinality({i \in 1..Len(p.warnings) :
                    p.warnings[i] = ApprovalWarning(approver)})

\* C23: approval_level and approver_required follow the tier table, upper
\* bounds inclusive; a non-auto tier adds exactly one warning, which names
\* its approver, the auto tier adds none; the tier adds no violation: the
\* otherwise clean invoice stays compliant in every tier.
C23_SpendingTier ==
    /\ \A a \in PolicyAmounts : check_spending_limit(a) = TierOf(a)
    /\ PolicyChecked =>
          LET tier == TierOf(data.total_amount)
          IN /\ policy_result.approval_level = tier.level
             /\ policy_result.approver_required = tier.approver
             /\ \A who \in Approvers :
                   ApprovalWarnings(policy_result, who) =
                       IF who = tier.approver /\ tier.level # "auto_approve"
                       THEN 1 ELSE 0
             /\ \A i \in 1..Len(policy_result.violations), who \in Approvers :
                   policy_result.violations[i] # ApprovalWarning(who)
             /\ (/\ data.total_amount > 0
                 /\ data = [ScenarioA EXCEPT !.total_amount = data.total_amount])
                => policy_result.compliant

\* exactly 50000.00 is still the CFO tier, with its one warning and no
\* violation
C23_Witness ==
    /\ PolicyChecked
    /\ data.total_amount = 5000000
    /\ policy_result.approval_level = "requires_cfo"
    /\ policy_result.approver_required = "CFO"
    /\ ApprovalWarnings(policy_result, "CFO") = 1
    /\ policy_result.compliant

---------------------------------------------------------------------------
(* The invoice-number format check *)

FormatMessages ==
    {"Invoice number is missing", "Invoice number is too short",
     "Invoice number contains unusual characters"}

\* absent, shorter than 3 characters, or with a character outside
\* [A-Za-z0-9#-]
BadFormat(n) ==
    \/ ~Truthy(n)
    \/ Len(n) < 3
    \/ \E i \in 1..Len(n) : ~(IsAlnumChar(n[i]) \/ n[i] \in {"#", "-"})

\* C24: check_compliance adds a format warning, and no violation, when the
\* invoice number is absent, shorter than 3 characters or contains a
\* character outside [A-Za-z0-9#-], and no format warning otherwise.
C24_FormatWarning ==
    PolicyChecked =>
        /\ (\E i \in 1..Len(policy_result.warnings) :
                policy_result.warnings[i] \in FormatMessages)
           <=> BadFormat(data.invoice_number)
        /\ \A i \in 1..Len(policy_result.violations) :
               policy_result.violations[i] \notin FormatMessages

---------------------------------------------------------------------------
(* The invoice-date check *)

\* the dates of PolicyDates that one of the four formats reads, with their
\* distance in days from 2025-01-01, the day on which the clock starts
DayOffsets ==
    {<<Today, 0>>,
     <<<<"2", "0", "2", "4", "-", "1", "2", "-", "0", "2">>, 0 - 30>>,
     <<<<"2", "0", "2", "4", "-", "1", "2", "-", "0", "1">>, 0 - 31>>,
     <<<<"2", "0", "2", "4", "-", "1", "0", "-", "0", "3">>, 0 - 90>>,
     <<<<"2", "0", "2", "4", "-", "1", "0", "-", "0", "2">>, 0 - 91>>,
     <<<<"2", "0", "2", "4", "-", "1", "0", "-", "0", "1">>, 0 - 92>>,
     <<<<"2", "0", "2", "5", "-", "0", "1", "-", "0", "2">>, 1>>,
     <<<<"2", "0", "2", "5", "-", "0", "1", "-", "0", "3">>, 2>>,
     <<<<"2", "0", "2", "5", "-", "0", "1", "-", "0", "4">>, 3>>,
     <<<<"1", "2", "/", "3", "1", "/", "2", "0", "2", "4">>, 0 - 1>>}

Parseable(date) == \E e \in DayOffsets : e[1] = date

\* the age in whole days, at clock t, of a date that a format reads
AgeAt(date, t) ==
    (t \div 86400) - (CHOOSE e \in DayOffsets : e[1] = date)[2]

DateViolations ==
    {"Invoice date is missing", "Invoice date is too old",
     "Invoice date is in the future"}

DateWarnings ==
    {"Invoice is getting old", "Invoice date format could not be validated"}

\* the messages of the result that belong to the date check
DateMessages(p) ==
    [violations |-> {p.violations[i] : i \in 1..Len(p.violations)}
                        \cap DateViolations,
     warnings |-> {p.warnings[i] : i \in 1..Len(p.warnings)}
                      \cap DateWarnings]

\* this step is one check_compliance call of the caller
PolicyStep == pc = "check_compliance" /\ pc' = "decide"

\* C25: with age the whole days from the invoice date to now, a date that a
\* format reads gives a violation if age > 90 or age < -1, a warning and no
\* violation if 30 < age <= 90, and nothing otherwise; a present date that
\* no format reads gives a warning and no violation.
C25_DateCheck ==
    [][(PolicyStep /\ Truthy(data.date)) =>
        LET got == DateMessages(policy_result')
            age == AgeAt(data.date, now)
        IN IF ~Parseable(data.date)
           THEN got = [violations |-> {},
                       warnings |-> {"Invoice date format could not be validated"}]
           ELSE IF age > 90
           THEN got = [violations |-> {"Invoice date is too old"},
                       warnings |-> {}]
           ELSE IF age < 0 - 1
           THEN got = [violations |-> {"Invoice date is in the future"},
                       warnings |-> {}]
           ELSE IF age > 30
           THEN got = [violations |-> {}, warnings |-> {"Invoice is getting old"}]
           ELSE got = [violations |-> {}, warnings |-> {}]]_vars

\* a day later the invoice dated 90 days before the start of the clock is
\* 91 days old: too old, and rejected for that alone
C25_Witness ==
    /\ pc = "idle"
    /\ decision_result # NoResult
    /\ now = 86400
    /\ data.date = <<"2", "0", "2", "4", "-", "1", "0", "-", "0", "3">>
    /\ policy_result.violations = <<"Invoice date is too old">>
    /\ decision_result.decision = "REJECT"

---------------------------------------------------------------------------
(* The progress events of an invocation *)

\* the steps a stage of the model covers, by the names of trace
StepsOf(stage) ==
    CASE stage = "extract" -> 2
      [] stage \in {"fraud", "policy", "decision"} -> 1

RECURSIVE StepsRun(_)
StepsRun(trace) ==
    IF trace = <<>> THEN 0 ELSE StepsOf(Head(trace)) + StepsRun(Tail(trace))

\* event k of an invocation is the start (k odd) or the completion (k even)
\* of step (k - 1) \div 2, counted from 0: that step is processing or
\* complete, the steps before it are complete, the steps after it pending
IsEvent(m, k) ==
    LET step_index == (k - 1) \div 2
        started == k % 2 = 1
    IN /\ m.type = "progress"
       /\ m.current_step = step_index
       /\ m.overall_progress =
              IF started THEN step_index * 20 ELSE (step_index + 1) * 20
       /\ \A j \in 1..5 :
             m.steps[j].status =
                 IF j < step_index + 1 THEN "complete"
                 ELSE IF j > step_index + 1 THEN "pending"
                 ELSE IF started THEN "processing" ELSE "complete"
       /\ \A j \in 1..5 :
             ("result" \in DOMAIN m.steps[j])
                 <=> (j < step_index + 1 \/ (j = step_index + 1 /\ ~started))

\* C26: with a tracker, the events of an invocation are start(0),
\* complete(0), start(1), ..., in stage order, two for every step that has
\* run and none for a step that has not; a step carries the result of its
\* stage from its completion event on; overall_progress never decreases
\* from one event to the next; when the invocation returns there are ten
\* events, every step is complete and overall_progress is 100.
C26_ProgressEvents ==
    \A r \in RunIds :
        LET tr == runs[r].tracker
        IN tr # NoTracker =>
              /\ Len(tr.sent) = 2 * StepsRun(runs[r].trace)
              /\ \A k \in 1..Len(tr.sent) : IsEvent(tr.sent[k], k)
              /\ Len(tr.sent) >= 6 =>
                    tr.sent[6].steps[3].result.risk_score
                        = runs[r].fraud.risk_score
              /\ \A k \in 1..(Len(tr.sent) - 1) :
                    tr.sent[k].overall_progress
                        <= tr.sent[k + 1].overall_progress
              /\ runs[r].pc = "done" =>
                    /\ Len(tr.sent) = 10
                    /\ \A j \in 1..5 : tr.steps[j].status = "complete"
                    /\ tr.overall_progress = 100

\* an invocation with a tracker that has returned
C26_Witness ==
    \E r \in RunIds :
        /\ runs[r].tracker # NoTracker
        /\ runs[r].pc = "done"
        /\ Len(runs[r].tracker.sent) = 10
        /\ runs[r].tracker.sent[10].overall_progress = 100

---------------------------------------------------------------------------
(* run_pipeline, one invocation after the other, without tracker: extract on
   the text of the document, then detect, check_compliance and decide on
   what extract returned *)

\* the lines of the text at the positions kept, in their order
RECURSIVE KeepLines(_, _, _)
KeepLines(text, keep, i) ==
    IF i > Len(text) THEN <<>>
    ELSE (IF i \in keep THEN <<text[i]>> ELSE <<>>)
         \o KeepLines(text, keep, i + 1)

\* the complete invoice with any of its lines missing, and a blank page
DocTexts ==
    {KeepLines(InvoiceText(AcmeLine), keep, 1) : keep \in SUBSET (1..6)}
    \cup {<<BlankLine>>}

\* documents per behaviour
MaxDocs == 1

\* upload_invoice: run_pipeline(file_path) is called on a document
DocUpload ==
    /\ pc = "idle"
    /\ Len(submitted) < MaxDocs
    /\ raw_text' \in DocTexts
    /\ pc' = "extract"
    /\ UNCHANGED <<processed_invoices, now, submitted, data, fraud_result,
                   policy_result, decision_result, runs>>

\* extraction_result = await self.nlp_agent.extract(vision_result["raw_text"])
DocExtract ==
    /\ pc = "extract"
    /\ data' = extract(raw_text)
    /\ pc' = "detect"
    /\ UNCHANGED <<processed_invoices, now, submitted, fraud_result,
                   policy_result, decision_result, runs, raw_text>>

\* fraud_result = await self.fraud_agent.detect(extraction_result)
DocDetect ==
    /\ pc = "detect"
    /\ DetectCall(data)
    /\ pc' = "check_compliance"
    /\ UNCHANGED <<now, policy_result, decision_result, runs, raw_text>>

NextDoc == DocUpload \/ DocExtract \/ DocDetect \/ TestPolicy \/ Decide

SpecDoc == Init /\ [][NextDoc]_vars

\* run_pipeline has returned the decision on the document in raw_text
DocDecided == pc = "idle" /\ decision_result # NoResult

\* C27: a document whose extraction confidence is below 1.0 has one of
\* invoice_number, date, vendor, positive total missing, gets the
\* required-fields violation and is decided REJECT; no document is decided
\* HOLD with confidence 0.70 (the low-confidence rule).
C27_LowConfidenceRejected ==
    DocDecided =>
        /\ data.confidence < 100 <=>
              \/ ~Truthy(data.invoice_number)
              \/ ~Truthy(data.date)
              \/ ~Truthy(data.vendor)
              \/ ~(data.total_amount > 0)
        /\ data.confidence < 100 =>
              /\ HasViolation(policy_result, "Missing required fields")
              /\ decision_result.decision = "REJECT"
        /\ ~(/\ decision_result.decision = "HOLD"
             /\ decision_result.confidence = 70)

\* the invoice without its invoice-number line: confidence 0.75, rejected
C27_Witness ==
    /\ DocDecided
    /\ raw_text = KeepLines(InvoiceText(AcmeLine), {1, 3, 4, 5, 6}, 1)
    /\ data.confidence = 75
    /\ ~Truthy(data.invoice_number)
    /\ decision_result.decision = "REJECT"

---------------------------------------------------------------------------
(* What an approval implies *)

---------------------------------------------------------------------------
(* The suspicious mark of an assessment and the approvals *)

\* C29: every assessment of detect is marked suspicious exactly when its
\* risk_score is at least 0.3, so none is suspicious with a score below 0.3;
\* an invoice approved with confidence 0.75 has risk_level LOW and one
\* approved with confidence 0.95 has risk_level MINIMAL.
C29_SuspiciousIffScore ==
    /\ fraud_result # NoResult =>
          /\ fraud_result.is_suspicious <=> fraud_result.risk_score >= 30
          /\ ~(fraud_result.is_suspicious /\ fraud_result.risk_score < 30)
    /\ (FirstDecided /\ decision_result.decision = "APPROVE") =>
          /\ decision_result.confidence = 75
                => fraud_result.risk_level = "LOW"
          /\ decision_result.confidence = 95
                => fraud_result.risk_level = "MINIMAL"

\* a round 1000.00 with a tax amount out of proportion: 0.15 + 0.1, LOW, not
\* suspicious, approved with confidence 0.75
C29_Witness ==
    /\ FirstDecided
    /\ data.total_amount = 100000
    /\ fraud_result.risk_score = 25
    /\ fraud_result.risk_level = "LOW"
    /\ ~fraud_result.is_suspicious
    /\ decision_result.decision = "APPROVE"
    /\ decision_result.confidence = 75

---------------------------------------------------------------------------
(* run_pipeline on empty documents, one after the other, with a complete
   invoice among them *)

\* no text, one blank line, two blank lines; the complete invoice
EmptyFeed ==
    {<<>>, <<BlankLine>>, <<BlankLine, BlankLine>>, InvoiceText(AcmeLine)}

\* documents per behaviour
MaxEmptyRuns == 4

EmptyUpload ==
    /\ pc = "idle"
    /\ Len(submitted) < MaxEmptyRuns
    /\ raw_text' \in EmptyFeed
    /\ pc' = "extract"
    /\ UNCHANGED <<processed_invoices, now, submitted, data, fraud_result,
                   policy_result, decision_result, runs>>

NextEmpty == EmptyUpload \/ DocExtract \/ DocDetect \/ TestPolicy \/ Decide

SpecEmpty == Init /\ [][NextEmpty]_vars

\* C30: every run on an empty text, whatever the ledger holds, appends one
\* entry with null invoice_number and null vendor, gets risk_score 0.2 with
\* the missing-fields flag alone (no duplicate, no frequency flag), is found
\* not compliant and is decided REJECT with confidence 0.90.
C30_EmptyRuns ==
    [][is_blank(raw_text) =>
        /\ DetectStep =>
              /\ processed_invoices' =
                     Append(processed_invoices,
                            [invoice_number |-> None, vendor |-> None,
                             amount |-> 0, date |-> None, timestamp |-> now])
              /\ fraud_result'.risk_score = 20
              /\ fraud_result'.flags = <<"Missing critical fields">>
              /\ ~DuplicateFlagged(fraud_result')
              /\ ~FrequencyFlagged(fraud_result')
        /\ PolicyStep =>
              /\ ~policy_result'.compliant
              /\ HasViolation(policy_result', "Missing required fields")
        /\ (pc = "decide" /\ pc' = "idle") =>
              /\ decision_result'.decision = "REJECT"
              /\ decision_result'.confidence = 90]_vars

\* the fourth empty document in a row: four null-keyed entries in the
\* ledger, and still 0.2 and REJECT 0.90
C30_Witness ==
    /\ pc = "idle"
    /\ is_blank(raw_text)
    /\ Len(processed_invoices) = 4
    /\ \A i \in 1..4 : /\ processed_invoices[i].invoice_number = None
                       /\ processed_invoices[i].vendor = None
    /\ fraud_result.risk_score = 20
    /\ ~policy_result.compliant
    /\ decision_result.decision = "REJECT"
    /\ decision_result.confidence = 90

=============================================================================
